---- MODULE Spec2Model ----
(***************************************************************************)
(* Tender scraper (Giri-Aayush/gem): the relevance-scoring engine, the     *)
(* filter/sort pipeline, the NIC-page record construction of the defence   *)
(* adapters and the HSL dedup merge, as state machines over bounded        *)
(* inputs.  Text is a sequence of one-character strings, so that           *)
(* lower-casing, stripping, substring search and regex word boundaries     *)
(* are computed, not assumed.  An Optional value is <<>> (None) or <<v>>.  *)
(***************************************************************************)
EXTENDS Integers, Sequences, FiniteSets, TLC

VARIABLES
    sc_tender,      \* score_tender: the Tender object (mutated in place)
    sc_profile,     \* score_tender: the profile dict
    sc_pc,          \* "init" before the call, "scored" after it returns
    ft_tenders,     \* filter_tenders: the caller's list (objects mutated in place)
    ft_profile,     \* filter_tenders: the profile dict
    ft_min_score,   \* filter_tenders: the min_score argument
    ft_matched,     \* filter_tenders: the returned list
    ft_pc,          \* "init" before the call, "done" after it returns
    ad_portal,      \* the adapter the run uses: its portal_name
    ad_rows,        \* the <tr> rows of the NIC listing the adapter fetches
    ad_main,        \* the notices of the HSL main site (hslvizag.in)
    ad_hash,        \* hash(title) & 0xFFFF of this process, per main-site title
    ad_tenders,     \* run_scraper: all_tenders
    ad_matched,     \* run_scraper: matched
    ad_pc,          \* "start", "scraped", then "done" or "empty"
    pg_portal,      \* the NIC-style adapter of the run: cppp, ap or defproc
    pg_site,        \* the kinds of the listing pages the portal serves during the run
    pg_browser,     \* Playwright on this machine: ok, not_installed or launch_error
    pg_cutoff_date, \* BaseScraper.cutoff_date (a day number)
    pg_mode,        \* the loop the run is in: plain or browser
    pg_page_index,  \* page_index of the active loop
    pg_tenders,     \* tenders, the list the active loop accumulates
    pg_log,         \* every page load of the run so far, in order
    pg_stop,        \* what ended the run
    pg_result,      \* the list run() returned
    pg_pc,           \* loop while the run pages, then done
    or_portals,     \* config.CONTRACTOR_PROFILE['portals']: the adapters switched on
    or_outcomes,    \* what scrape() of each enabled adapter does when called
    or_scrapers,    \* run_scraper: scrapers
    or_next,        \* run_scraper: position of the for loop in scrapers
    or_ran,         \* the adapters whose run() has returned, in order
    or_all_tenders, \* run_scraper: all_tenders
    or_matched,     \* run_scraper: matched
    or_pc,           \* start, loop, scraped, then done or empty
    db_portals,     \* webapp: config.CONTRACTOR_PROFILE['portals'] (gem, cppp)
    db_outcomes,    \* webapp: what scrape() of each adapter does when called
    db_status,      \* webapp: scrape_status
    db_progress,    \* webapp: scrape_progress
    db_stage,       \* webapp: scrape_stage
    db_error,       \* webapp: scrape_error
    db_last_run_ts, \* webapp: last_run_ts (the number of completed runs stands for the time)
    db_all_tenders, \* webapp: all_tenders
    db_matched_tenders, \* webapp: matched_tenders
    db_lock,        \* webapp: _lock, << >> when free, else the thread holding it
    db_request,     \* the POST /run-scraper requests: position, status read, HTTP code
    db_worker,      \* the _do_scrape threads: position, loop index, raw, matched
    db_config,      \* the config module as last loaded: profile, minimum score
    db_reader,       \* the page's loadData: the two lists it has been answered
    cl_args,        \* the argument of the call under study
    cl_result,      \* what the call returned
    cl_pc           \* called, then returned

scoreVars == <<sc_tender, sc_profile, sc_pc>>

filterVars == <<ft_tenders, ft_profile, ft_min_score, ft_matched, ft_pc>>

adapterVars ==
    <<ad_portal, ad_rows, ad_main, ad_hash, ad_tenders, ad_matched, ad_pc>>

pageVars ==
    <<pg_portal, pg_site, pg_browser, pg_cutoff_date, pg_mode, pg_page_index,
      pg_tenders, pg_log, pg_stop, pg_result, pg_pc>>

orchVars ==
    <<or_portals, or_outcomes, or_scrapers, or_next, or_ran, or_all_tenders,
      or_matched, or_pc>>

dashVars ==
    <<db_portals, db_outcomes, db_status, db_progress, db_stage, db_error, db_last_run_ts,
      db_all_tenders, db_matched_tenders, db_lock, db_request, db_worker, db_config,
      db_reader>>

callVars ==
    <<cl_args, cl_result, cl_pc>>

vars == <<scoreVars, filterVars, adapterVars, pageVars, orchVars, dashVars, callVars>>

\* the variables of a part of the program that a specification leaves out
ScoreOff == sc_tender = << >> /\ sc_profile = << >> /\ sc_pc = "off"

FilterOff ==
    /\ ft_tenders = << >> /\ ft_profile = << >> /\ ft_min_score = 0
    /\ ft_matched = << >> /\ ft_pc = "off"

AdapterOff ==
    /\ ad_portal = "" /\ ad_rows = << >> /\ ad_main = << >> /\ ad_hash = << >>
    /\ ad_tenders = << >> /\ ad_matched = << >> /\ ad_pc = "off"

CallOff ==
    cl_args = << >> /\ cl_result = << >> /\ cl_pc = "off"

DashOff ==
    /\ db_portals = {} /\ db_outcomes = << >> /\ db_status = "" /\ db_progress = 0
    /\ db_stage = "" /\ db_error = "" /\ db_last_run_ts = 0 /\ db_all_tenders = << >>
    /\ db_matched_tenders = << >> /\ db_lock = << >> /\ db_request = << >>
    /\ db_worker = << >> /\ db_config = << >> /\ db_reader = << >>

OrchOff ==
    /\ or_portals = {} /\ or_outcomes = << >> /\ or_scrapers = << >> /\ or_next = 0
    /\ or_ran = << >> /\ or_all_tenders = << >> /\ or_matched = << >> /\ or_pc = "off"

PageOff ==
    /\ pg_portal = "" /\ pg_site = << >> /\ pg_browser = "" /\ pg_cutoff_date = 0
    /\ pg_mode = "" /\ pg_page_index = 0 /\ pg_tenders = << >> /\ pg_log = << >>
    /\ pg_stop = "" /\ pg_result = << >> /\ pg_pc = "off"

----------------------------------------------------------------------------
(* Bounds of the explored inputs.                                          *)

MaxWorkKw == 6

MaxLocKw == 2

MaxExclKw == 2

MaxTenders == 3

MaxRows == 2

MaxMain == 1

----------------------------------------------------------------------------
(* Concrete texts.                                                         *)

TitlePaintingVizag ==
    <<"P","a","i","n","t","i","n","g"," ","w","o","r","k"," ","a","t"," ","V","i","s","a","k","h","a","p","a","t","n","a","m"," ","p","o","r","t",","," ","e","s","t","."," ","₹","2",",","0","0",",","0","0","0">>
TitleUnderwater ==
    <<"U","n","d","e","r","w","a","t","e","r"," ","h","u","l","l"," ","p","a","i","n","t","i","n","g"," ","a","t"," ","V","i","s","a","k","h","a","p","a","t","n","a","m">>
TitleWeapons ==
    <<"S","u","p","p","l","y"," ","o","f"," ","w","e","a","p","o","n","s">>
TitleRoadAP ==
    <<"R","o","a","d"," ","r","e","p","a","i","r"," ","(","A","P",")">>
TitleCapacity ==
    <<"C","a","p","a","c","i","t","y"," ","u","p","g","r","a","d","e">>
TitleManyWorks ==
    <<"C","i","v","i","l"," ","r","e","p","a","i","r"," ","w","o","r","k"," ","a","n","d"," ","s","u","p","p","l","y"," ","o","f"," ","p","a","i","n","t",","," ","p","a","i","n","t","i","n","g">>
TitleStandaloneAP ==
    <<"A","P"," ","c","a","n","a","l">>
TitleCanteen ==
    <<"C","a","n","t","e","e","n"," ","s","e","r","v","i","c","e","s">>
DeptNaval ==
    <<"E","a","s","t","e","r","n"," ","N","a","v","a","l"," ","C","o","m","m","a","n","d",","," ","V","i","s","a","k","h","a","p","a","t","n","a","m">>
DeptDiving ==
    <<"N","a","v","a","l"," ","D","i","v","i","n","g"," ","S","c","h","o","o","l">>
DeptHslDefault ==
    <<"H","S","L",","," ","V","i","s","a","k","h","a","p","a","t","n","a","m">>
DescCivil ==
    <<"c","i","v","i","l"," ","a","n","d"," ","r","e","p","a","i","r"," ","w","o","r","k","s">>
CatSupply ==
    <<"S","u","p","p","l","y">>
CatWorks ==
    <<"W","o","r","k","s">>
LocVisakhapatnam ==
    <<"V","i","s","a","k","h","a","p","a","t","n","a","m">>
LocDepotAP ==
    <<"w","e","a","p","o","n","s"," ","d","e","p","o","t"," ","(","A","P",")">>
KwPainting ==
    <<"p","a","i","n","t","i","n","g">>
KwPaint ==
    <<"p","a","i","n","t">>
KwCivil ==
    <<"c","i","v","i","l">>
KwRepair ==
    <<"r","e","p","a","i","r">>
KwSupply ==
    <<"s","u","p","p","l","y">>
KwWork ==
    <<"w","o","r","k">>
KwRoad ==
    <<"R","o","a","d">>
KwAP ==
    <<"A","P">>
KwVisakhapatnam ==
    <<"V","i","s","a","k","h","a","p","a","t","n","a","m">>
KwVizag ==
    <<"V","i","z","a","g">>
KwUnderwater ==
    <<"u","n","d","e","r","w","a","t","e","r">>
KwDiving ==
    <<"D","i","v","i","n","g">>
KwWeapons ==
    <<"w","e","a","p","o","n","s">>
TagExcluded ==
    <<"E","X","C","L","U","D","E","D",":">>
TagLoc ==
    <<"L","O","C",":">>
DeptHslMain ==
    <<"H","i","n","d","u","s","t","a","n"," ","S","h","i","p","y","a","r","d"," ","L","i","m","i","t","e","d">>
TitleShort ==
    <<"a","b","c">>
HslIdPrefix ==
    <<"H","S","L","-">>
IdA ==
    <<"T","-","1">>
IdB ==
    <<"T","-","2">>

Empty == << >>

None == << >>

Some(v) == <<v>>

----------------------------------------------------------------------------
(* String primitives of Python used by the filter engine.                  *)

UpperAlpha ==
    <<"A","B","C","D","E","F","G","H","I","J","K","L","M",
      "N","O","P","Q","R","S","T","U","V","W","X","Y","Z">>

LowerAlpha ==
    <<"a","b","c","d","e","f","g","h","i","j","k","l","m",
      "n","o","p","q","r","s","t","u","v","w","x","y","z">>

Digits == {"0","1","2","3","4","5","6","7","8","9"}

ToLower ==
    [c \in {UpperAlpha[i] : i \in 1..26} |->
        LowerAlpha[CHOOSE i \in 1..26 : UpperAlpha[i] = c]]

\* str.lower() on one character
LowerChar(c) == IF c \in DOMAIN ToLower THEN ToLower[c] ELSE c

\* str.lower()
Lower(s) == [i \in 1..Len(s) |-> LowerChar(s[i])]

IsSpace(c) == c = " "

RECURSIVE LStrip(_)
LStrip(s) == IF s # << >> /\ IsSpace(Head(s)) THEN LStrip(Tail(s)) ELSE s

RECURSIVE RStrip(_)
RStrip(s) ==
    IF s # << >> /\ IsSpace(s[Len(s)]) THEN RStrip(SubSeq(s, 1, Len(s) - 1)) ELSE s

\* str.strip()
Strip(s) == RStrip(LStrip(s))

\* " ".join(parts)
RECURSIVE Join(_)
Join(parts) ==
    IF parts = << >> THEN << >>
    ELSE IF Len(parts) = 1 THEN parts[1]
    ELSE parts[1] \o <<" ">> \o Join(Tail(parts))

\* kw in text
Contains(text, kw) ==
    \E p \in 0..(Len(text) - Len(kw)) : SubSeq(text, p + 1, p + Len(kw)) = kw

\* \w of the re module on lower-cased text
IsWordChar(c) == c \in {LowerAlpha[i] : i \in 1..26} \cup Digits \cup {"_"} \cup DOMAIN ToLower

\* \b at offset i of text (between text[i] and text[i+1], 1-based)
WordBoundary(text, i) ==
    (i >= 1 /\ IsWordChar(text[i])) # (i + 1 <= Len(text) /\ IsWordChar(text[i + 1]))

\* re.search(r"\b" + re.escape(kw) + r"\b", text)
SearchWord(text, kw) ==
    \E p \in 0..(Len(text) - Len(kw)) :
        /\ SubSeq(text, p + 1, p + Len(kw)) = kw
        /\ WordBoundary(text, p)
        /\ WordBoundary(text, p + Len(kw))

Min(a, b) == IF a <= b THEN a ELSE b

Max(a, b) == IF a >= b THEN a ELSE b

----------------------------------------------------------------------------
(* filters/tender_filter.py                                                *)

_normalise(text) == Strip(Lower(text))

\* the keyword is compared as written, not lower-cased
_contains_any_kw_as_written(text, keywords) ==
    LET text_lower == Strip(Lower(text))
    IN  SelectSeq(keywords, LAMBDA kw : Contains(text_lower, kw))

_contains_any(text, keywords) ==
    LET text_lower == _normalise(text)
    IN  SelectSeq(keywords, LAMBDA kw : Contains(text_lower, Lower(kw)))

\* plain substring search in place of the \b pattern
_contains_any_word_substring(text, keywords) ==
    LET text_lower == Strip(Lower(text))
    IN  SelectSeq(keywords, LAMBDA kw : Contains(text_lower, Lower(kw)))

_contains_any_word(text, keywords) ==
    LET text_lower == _normalise(text)
    IN  SelectSeq(keywords, LAMBDA kw : SearchWord(text_lower, Lower(kw)))

\* corpus = " ".join([title, description, category, department])
Corpus(t) == Join(<<t.title, t.description, t.category, t.department>>)

\* location_corpus = " ".join([location, department, title])
LocationCorpus(t) == Join(<<t.location, t.department, t.title>>)

\* [f"{prefix}{kw}" for kw in hits]
Tagged(prefix, hits) == [i \in 1..Len(hits) |-> prefix \o hits[i]]

\* the early return of an excluded tender: only score and tags are written
ExcludedTender(t, exclude_hits) ==
    [t EXCEPT !.match_score = 0,
              !.matched_keywords = Tagged(TagExcluded, exclude_hits)]

\* the bonus of further keywords without its cap of 4
WorkScore_uncapped(work_hits) ==
    IF work_hits # << >> THEN 40 + (Len(work_hits) - 1) * 5 ELSE 0

\* +40 for the first work keyword, +5 for each further one, at most 4 of them
WorkScore(work_hits) ==
    IF work_hits # << >> THEN 40 + Min(Len(work_hits) - 1, 4) * 5 ELSE 0

LocationScore(location_hits) == IF location_hits # << >> THEN 20 ELSE 0

\* the upper bound compared with the profile ceiling only
BudgetInRange_ceiling_only(t, p) ==
    IF t.budget_max # None
    THEN Some(t.budget_max[1] <= p.budget_range.max)
    ELSE IF t.budget_min # None
    THEN Some(t.budget_min[1] <= p.budget_range.max)
    ELSE None

\* the value written to tender.budget_in_range
BudgetInRange(t, p) ==
    LET min_budget == p.budget_range.min
        max_budget == p.budget_range.max
    IN  IF t.budget_max # None
        THEN Some(min_budget <= t.budget_max[1] /\ t.budget_max[1] <= max_budget)
        ELSE IF t.budget_min # None
        THEN Some(t.budget_min[1] <= max_budget)
        ELSE None

\* the points of the budget step
BudgetScore(t, p) ==
    IF t.budget_max # None
    THEN (IF BudgetInRange(t, p) = Some(TRUE) THEN 15 ELSE 0)
    ELSE IF t.budget_min # None
    THEN (IF BudgetInRange(t, p) = Some(TRUE) THEN 8 ELSE 0)
    ELSE 0

\* the bonus tested against the short portal names
PortalScore_short_names(t) == IF t.portal \in {"HSL", "defproc"} THEN 15 ELSE 0

PortalScore(t) ==
    IF t.portal \in {"HSL (Hindustan Shipyard)", "defproc (Defence)"} THEN 15 ELSE 0

\* if not work_hits and not location_hits: score = max(score, 0)
FloorScore(score, work_hits, location_hits) ==
    IF work_hits = << >> /\ location_hits = << >> THEN Max(score, 0) ELSE score

\* the score stored without the final min
ClampScore_unclamped(score) == score

\* tender.match_score = min(score, 100)
ClampScore(score) == Min(score, 100)

score_tender(t, p) ==
    LET exclude_hits  == _contains_any(Corpus(t), p.exclude_keywords)
        work_hits     == _contains_any(Corpus(t), p.work_keywords)
        location_hits == _contains_any_word(LocationCorpus(t), p.locations)
        score == WorkScore(work_hits) + LocationScore(location_hits)
                   + BudgetScore(t, p) + PortalScore(t)
    IN  IF exclude_hits # << >>
        THEN ExcludedTender(t, exclude_hits)
        ELSE [t EXCEPT
                !.location_match = (location_hits # << >>),
                !.budget_in_range = BudgetInRange(t, p),
                !.match_score =
                    ClampScore(FloorScore(score, work_hits, location_hits)),
                !.matched_keywords = work_hits \o Tagged(TagLoc, location_hits)]

----------------------------------------------------------------------------
(* scrapers/models.py: a Tender as an adapter constructs it.               *)

NewTender(tender_id, title, portal, department, location, budget_min, budget_max, published_date, deadline, category, description) ==
    [tender_id |-> tender_id, title |-> title, portal |-> portal,
     department |-> department, location |-> location,
     budget_min |-> budget_min, budget_max |-> budget_max,
     published_date |-> published_date, deadline |-> deadline,
     category |-> category, description |-> description,
     match_score |-> 0, matched_keywords |-> << >>,
     budget_in_range |-> None, location_match |-> FALSE]

----------------------------------------------------------------------------
(* config.py: the contractor profile.                                      *)

WorkPool == <<KwPainting, KwPaint, KwCivil, KwRepair, KwSupply, KwWork, KwRoad>>

LocationPool == <<KwAP, KwVisakhapatnam, KwVizag>>

ExcludePool == <<KwUnderwater, KwDiving, KwWeapons>>

Prefix(pool, n) == SubSeq(pool, 1, Min(n, Len(pool)))

BudgetRanges ==
    { [min |-> 100000, max |-> 5000000],
      [min |-> 0, max |-> 999999999] }

CONTRACTOR_PROFILE(nw, nl, nx, range) ==
    [work_keywords |-> Prefix(WorkPool, nw),
     locations |-> Prefix(LocationPool, nl),
     exclude_keywords |-> Prefix(ExcludePool, nx),
     budget_range |-> range]

Profiles ==
    { CONTRACTOR_PROFILE(nw, nl, nx, r) :
        nw \in 0..MaxWorkKw, nl \in 0..MaxLocKw, nx \in 0..MaxExclKw,
        r \in BudgetRanges }

----------------------------------------------------------------------------
(* Inputs of score_tender.                                                 *)

Titles ==
    { TitlePaintingVizag, TitleUnderwater, TitleWeapons, TitleRoadAP,
      TitleCapacity, TitleManyWorks, TitleStandaloneAP, TitleCanteen }

\* <<description, category, department, location>>
OrgFields ==
    { <<Empty, Empty, Empty, Empty>>,
      <<Empty, Empty, DeptNaval, LocVisakhapatnam>>,
      <<DescCivil, CatSupply, DeptDiving, Empty>>,
      <<Empty, CatWorks, Empty, LocDepotAP>> }

\* <<budget_min, budget_max>>
Budgets ==
    { <<None, None>>, <<None, Some(200000)>>, <<None, Some(50000)>>,
      <<None, Some(6000000)>>, <<Some(300000), None>>,
      <<Some(9000000), None>>, <<Some(9000000), Some(200000)>> }

ScorePortals == {"GeM", "HSL (Hindustan Shipyard)"}

\* every text combination with an unknown and an in-range budget, and
\* every budget combination with two titles and two organisations
ScoreInputs ==
    { NewTender(IdA, title, portal, o[3], o[4], b[1], b[2], None, None, o[2], o[1]) :
        title \in Titles, portal \in ScorePortals, o \in OrgFields,
        b \in {<<None, None>>, <<None, Some(200000)>>} }
    \cup
    { NewTender(IdA, title, portal, o[3], o[4], b[1], b[2], None, None, o[2], o[1]) :
        title \in {TitleManyWorks, TitleCanteen}, portal \in ScorePortals,
        o \in {<<Empty, Empty, Empty, Empty>>,
               <<Empty, Empty, DeptNaval, LocVisakhapatnam>>},
        b \in Budgets }

----------------------------------------------------------------------------
(* Specification of one score_tender call.                                 *)

InitScore ==
    /\ sc_tender \in ScoreInputs
    /\ sc_profile \in Profiles
    /\ sc_pc = "init"
    /\ FilterOff
    /\ AdapterOff
    /\ PageOff
    /\ OrchOff
    /\ DashOff
    /\ CallOff

ScoreOne ==
    /\ sc_pc = "init"
    /\ sc_tender' = score_tender(sc_tender, sc_profile)
    /\ sc_pc' = "scored"
    /\ UNCHANGED <<sc_profile, filterVars, adapterVars, pageVars, orchVars, dashVars, callVars>>

NextScore == ScoreOne

SpecScore == InitScore /\ [][NextScore]_vars

----------------------------------------------------------------------------
(* filters/tender_filter.py: filter_tenders.                               *)

\* datetime.max as a day number (the ordinal of 9999-12-31)
DATETIME_MAX == 3652059

\* a missing deadline sorted as the earliest date
SortKey_none_first(t) ==
    <<0 - t.match_score, IF t.deadline # None THEN t.deadline[1] ELSE 0>>

\* key=lambda t: (-t.match_score, t.deadline or datetime.max)
SortKey(t) ==
    <<0 - t.match_score, IF t.deadline # None THEN t.deadline[1] ELSE DATETIME_MAX>>

\* tuple comparison a <= b of two sort keys
KeyLeq(a, b) == a[1] < b[1] \/ (a[1] = b[1] /\ a[2] <= b[2])

\* t placed behind every element whose key is <= its own
InsertStable(sorted, t) ==
    LET n == Cardinality({i \in DOMAIN sorted : KeyLeq(SortKey(sorted[i]), SortKey(t))})
    IN  SubSeq(sorted, 1, n) \o <<t>> \o SubSeq(sorted, n + 1, Len(sorted))

\* list.sort(key=...): the stable sort
RECURSIVE SortStable(_)
SortStable(s) ==
    IF s = << >> THEN << >>
    ELSE InsertStable(SortStable(SubSeq(s, 1, Len(s) - 1)), s[Len(s)])

\* scored = [score_tender(t, profile) for t in tenders]
ScoreAll(tenders, profile) ==
    [i \in 1..Len(tenders) |-> score_tender(tenders[i], profile)]

\* the threshold test with > in place of >=
KeepScored_strict(scored, min_score) ==
    SelectSeq(scored, LAMBDA t : t.match_score > min_score)

\* filtered = [t for t in scored if t.match_score >= min_score]
KeepScored(scored, min_score) ==
    SelectSeq(scored, LAMBDA t : t.match_score >= min_score)

filter_tenders(tenders, profile, min_score) ==
    SortStable(KeepScored(ScoreAll(tenders, profile), min_score))

----------------------------------------------------------------------------
(* Inputs of filter_tenders.                                               *)

\* work "painting"; locations "AP", "Visakhapatnam"; exclude "underwater"
ProfileOneKeyword == CONTRACTOR_PROFILE(1, 2, 1, [min |-> 100000, max |-> 5000000])

\* six work keywords; location "AP"; nothing excluded; the default budget range
ProfileSixKeywords == CONTRACTOR_PROFILE(6, 1, 0, [min |-> 0, max |-> 999999999])

FilterProfiles == {ProfileOneKeyword, ProfileSixKeywords}

\* 0, the DEFAULT_MIN_SCORE of config.py, and a tighter threshold
MinScores == {0, 30, 60}

FilterPool ==
    { NewTender(id, TitlePaintingVizag, "GeM", Empty, Empty, None, None, None, d,
                Empty, Empty) :
        id \in {IdA, IdB}, d \in {None, Some(1)} }
    \cup
    { NewTender(IdA, TitlePaintingVizag, "GeM", Empty, Empty, None, None, None, Some(2),
                Empty, Empty) }
    \cup
    { NewTender(IdA, TitleManyWorks, "GeM", Empty, LocDepotAP, None, None, None,
                Some(1), Empty, Empty),
      NewTender(IdA, TitleUnderwater, "HSL (Hindustan Shipyard)", DeptNaval,
                LocVisakhapatnam, None, Some(200000), None, Some(1), Empty, Empty),
      NewTender(IdB, TitleCanteen, "GeM", Empty, Empty, None, None, None, None,
                Empty, Empty) }

\* the lists of at most n elements of S
ListsUpTo(S, n) == UNION {[1..k -> S] : k \in 0..n}

----------------------------------------------------------------------------
(* Specification of one filter_tenders call.                               *)

InitFilter ==
    /\ ft_tenders \in ListsUpTo(FilterPool, MaxTenders)
    /\ ft_profile \in FilterProfiles
    /\ ft_min_score \in MinScores
    /\ ft_matched = << >>
    /\ ft_pc = "init"
    /\ ScoreOff
    /\ AdapterOff
    /\ PageOff
    /\ OrchOff
    /\ DashOff
    /\ CallOff

FilterTenders ==
    /\ ft_pc = "init"
    /\ ft_tenders' = ScoreAll(ft_tenders, ft_profile)
    /\ ft_matched' = filter_tenders(ft_tenders, ft_profile, ft_min_score)
    /\ ft_pc' = "done"
    /\ UNCHANGED <<ft_profile, ft_min_score, scoreVars, adapterVars, pageVars, orchVars,
                   dashVars, callVars>>

NextFilter == FilterTenders

SpecFilter == InitFilter /\ [][NextFilter]_vars

----------------------------------------------------------------------------
(* scrapers/hsl_scraper.py and scrapers/defproc_scraper.py: the records    *)
(* built from a NIC listing page, the HSL main-site notices and the HSL    *)
(* dedup merge.  A row is [ncells, tender_id, title, dept, tail]: the      *)
(* number of <td> cells, the stripped text of cells 1, 2, 3, and for each  *)
(* cell from 4 on what _parse_date returns for its text (None when the     *)
(* text is in none of the date formats, else the date as a day number).    *)

NicRow(ncells, tender_id, title, dept, tail) ==
    [ncells |-> ncells, tender_id |-> tender_id, title |-> title,
     dept |-> dept, tail |-> tail]

\* the cells of the row that parse as dates, in order of appearance
RowDates(row) == SelectSeq(row.tail, LAMBDA d : d # None)

\* the first parseable date
RowPublished(row) == IF Len(RowDates(row)) >= 1 THEN RowDates(row)[1] ELSE None

\* the second parseable date
RowDeadline(row) == IF Len(RowDates(row)) >= 2 THEN RowDates(row)[2] ELSE None

\* HslScraper._parse_nic_page: the Tender of one row
HslNicTender(row) ==
    NewTender(row.tender_id, row.title, "HSL (Hindustan Shipyard)",
              IF row.dept # Empty THEN row.dept ELSE DeptHslDefault,
              LocVisakhapatnam, None, None,
              RowPublished(row), RowDeadline(row), Empty, Empty)

\* DefprocScraper._parse_nic_page: the Tender of one row
DefprocNicTender(row) ==
    NewTender(row.tender_id, row.title, "defproc (Defence)", row.dept, row.dept,
              None, None, RowPublished(row), RowDeadline(row), Empty, Empty)

\* rows of fewer than 4 cells are skipped, and so are rows without a title
RowsKept(rows) == SelectSeq(rows, LAMBDA r : r.ncells >= 4 /\ r.title # Empty)

HslParseNicPage(rows) ==
    [i \in 1..Len(RowsKept(rows)) |-> HslNicTender(RowsKept(rows)[i])]

DefprocParseNicPage(rows) ==
    [i \in 1..Len(RowsKept(rows)) |-> DefprocNicTender(RowsKept(rows)[i])]

HexDigits == <<"0","1","2","3","4","5","6","7","8","9","A","B","C","D","E","F">>

\* f"{n:04X}" for n in 0..65535
Hex4(n) ==
    <<HexDigits[((n \div 4096) % 16) + 1], HexDigits[((n \div 256) % 16) + 1],
      HexDigits[((n \div 16) % 16) + 1], HexDigits[(n % 16) + 1]>>

\* f"HSL-{hash(title) & 0xFFFF:04X}"
HslMainId(title, hash) == HslIdPrefix \o Hex4(hash[title])

\* HslScraper._scrape_hsl_main_site: the Tender of one notice
HslMainTender(notice, hash) ==
    NewTender(HslMainId(notice.title, hash), notice.title,
              "HSL (Hindustan Shipyard)", DeptHslMain, LocVisakhapatnam,
              None, None, None, notice.deadline, Empty, Empty)

\* notices without a title of at least 5 characters are skipped
NoticesKept(notices) == SelectSeq(notices, LAMBDA n : Len(n.title) >= 5)

HslScrapeMainSite(notices, hash) ==
    [i \in 1..Len(NoticesKept(notices)) |-> HslMainTender(NoticesKept(notices)[i], hash)]

\* the key is the identifier alone
DedupKey_id_only(t) == t.tender_id

\* key = t.tender_id or t.title
DedupKey(t) == IF t.tender_id # Empty THEN t.tender_id ELSE t.title

\* the loop over tenders with its seen set and its unique list
RECURSIVE DedupLoop(_, _, _)
DedupLoop(tenders, seen, unique) ==
    IF tenders = << >> THEN unique
    ELSE LET t == Head(tenders)
             key == DedupKey(t)
         IN  IF key \notin seen
             THEN DedupLoop(Tail(tenders), seen \cup {key}, Append(unique, t))
             ELSE DedupLoop(Tail(tenders), seen, unique)

DedupMerge(tenders) == DedupLoop(tenders, {}, << >>)

\* HslScraper.scrape: NIC records, then main-site records, then the merge
HslScrape(rows, notices, hash) ==
    DedupMerge(HslParseNicPage(rows) \o HslScrapeMainSite(notices, hash))

\* DefprocScraper.scrape
DefprocScrape(rows) == DefprocParseNicPage(rows)

----------------------------------------------------------------------------
(* config.py and main.py                                                   *)

\* int(_p.get("minimum_match_score", 30))
DEFAULT_MIN_SCORE == 30

\* work "painting", location "Visakhapatnam", budget 100000..5000000,
\* exclude "underwater"
ProfilePaintingVizag ==
    [work_keywords |-> <<KwPainting>>,
     locations |-> <<KwVisakhapatnam>>,
     exclude_keywords |-> <<KwUnderwater>>,
     budget_range |-> [min |-> 100000, max |-> 5000000]]

----------------------------------------------------------------------------
(* Inputs of an adapter run.                                               *)

RowPool ==
    { NicRow(8, IdA, TitlePaintingVizag, DeptNaval, <<None, Some(3), Some(9)>>),
      NicRow(8, IdA, TitleUnderwater, Empty, <<Some(4), None>>),
      NicRow(5, Empty, TitlePaintingVizag, Empty, <<None>>),
      NicRow(8, Empty, TitleCanteen, DeptNaval, <<Some(5), Some(5)>>),
      NicRow(8, IdB, Empty, DeptNaval, <<Some(1), Some(2)>>),
      NicRow(3, IdB, TitleCanteen, Empty, << >>),
      NicRow(8, HslIdPrefix \o Hex4(6699), TitleCanteen, Empty, <<Some(2), Some(6)>>) }

MainTitles == {TitlePaintingVizag, TitleCanteen, TitleShort}

NoticePool ==
    { [title |-> t, deadline |-> IF t = TitlePaintingVizag THEN Some(7) ELSE None] :
        t \in MainTitles }

\* hash() of str is salted per process: distinct titles get distinct
\* 16-bit values in most processes and the same value in some
HashChoices ==
    { [t \in MainTitles |->
         IF t = TitlePaintingVizag THEN 43981 ELSE IF t = TitleCanteen THEN 6699 ELSE 7],
      [t \in MainTitles |-> 6699] }

----------------------------------------------------------------------------
(* Specification of a run over one adapter: scraper.run(), then            *)
(* filter_tenders with the profile.  The NIC listing is a single page.     *)

Init ==
    /\ ad_portal \in {"HSL (Hindustan Shipyard)", "defproc (Defence)"}
    /\ ad_rows \in ListsUpTo(RowPool, MaxRows)
    /\ IF ad_portal = "HSL (Hindustan Shipyard)"
       THEN ad_main \in ListsUpTo(NoticePool, MaxMain) /\ ad_hash \in HashChoices
       ELSE ad_main = << >> /\ ad_hash = << >>
    /\ ad_tenders = << >>
    /\ ad_matched = << >>
    /\ ad_pc = "start"
    /\ ScoreOff
    /\ FilterOff
    /\ PageOff
    /\ OrchOff
    /\ DashOff
    /\ CallOff

HslRun ==
    /\ ad_pc = "start"
    /\ ad_portal = "HSL (Hindustan Shipyard)"
    /\ ad_tenders' = HslScrape(ad_rows, ad_main, ad_hash)
    /\ ad_pc' = "scraped"
    /\ UNCHANGED <<ad_portal, ad_rows, ad_main, ad_hash, ad_matched, scoreVars, filterVars,
                   pageVars, orchVars, dashVars, callVars>>

DefprocRun ==
    /\ ad_pc = "start"
    /\ ad_portal = "defproc (Defence)"
    /\ ad_tenders' = DefprocScrape(ad_rows)
    /\ ad_pc' = "scraped"
    /\ UNCHANGED <<ad_portal, ad_rows, ad_main, ad_hash, ad_matched, scoreVars, filterVars,
                   pageVars, orchVars, dashVars, callVars>>

\* if not all_tenders: return None
NothingScraped ==
    /\ ad_pc = "scraped"
    /\ ad_tenders = << >>
    /\ ad_pc' = "empty"
    /\ UNCHANGED <<ad_portal, ad_rows, ad_main, ad_hash, ad_tenders, ad_matched,
                   scoreVars, filterVars, pageVars, orchVars, dashVars, callVars>>

\* matched = filter_tenders(all_tenders, profile, min_score=min_score)
ScoreAndFilter ==
    /\ ad_pc = "scraped"
    /\ ad_tenders # << >>
    /\ ad_tenders' = ScoreAll(ad_tenders, ProfilePaintingVizag)
    /\ ad_matched' = filter_tenders(ad_tenders, ProfilePaintingVizag, DEFAULT_MIN_SCORE)
    /\ ad_pc' = "done"
    /\ UNCHANGED <<ad_portal, ad_rows, ad_main, ad_hash, scoreVars, filterVars, pageVars,
                   orchVars, dashVars, callVars>>

Next == HslRun \/ DefprocRun \/ NothingScraped \/ ScoreAndFilter

Spec == Init /\ [][Next]_vars

----------------------------------------------------------------------------
(* Vocabulary of the scoring claims, stated from the tender's fields and   *)
(* the profile, not from the scoring operators.                            *)

\* kw occurs in text as a case-insensitive substring
OccursIn(kw, text) ==
    \E p \in 0..(Len(text) - Len(kw)) :
        \A i \in 1..Len(kw) : LowerChar(text[p + i]) = LowerChar(kw[i])

IsAlnum(c) == LowerChar(c) \in {LowerAlpha[i] : i \in 1..26} \cup Digits \cup {"_"}

\* a word boundary lies between text[i] and text[i+1]
BoundaryAt(text, i) ==
    LET before == IF i >= 1 THEN IsAlnum(text[i]) ELSE FALSE
        after  == IF i < Len(text) THEN IsAlnum(text[i + 1]) ELSE FALSE
    IN  before # after

\* kw occurs in text between two word boundaries, case-insensitively
OccursAsWord(kw, text) ==
    \E p \in 0..(Len(text) - Len(kw)) :
        /\ \A i \in 1..Len(kw) : LowerChar(text[p + i]) = LowerChar(kw[i])
        /\ BoundaryAt(text, p)
        /\ BoundaryAt(text, p + Len(kw))

CorpusOf(t) ==
    t.title \o <<" ">> \o t.description \o <<" ">> \o t.category \o <<" ">> \o t.department

LocationTextOf(t) == t.location \o <<" ">> \o t.department \o <<" ">> \o t.title

MatchingExcludes(t, p) ==
    {i \in DOMAIN p.exclude_keywords : OccursIn(p.exclude_keywords[i], CorpusOf(t))}

IsExcluded(t, p) == MatchingExcludes(t, p) # {}

WorkHitCount(t, p) ==
    Cardinality({i \in DOMAIN p.work_keywords : OccursIn(p.work_keywords[i], CorpusOf(t))})

HasLocationHit(t, p) ==
    \E i \in DOMAIN p.locations : OccursAsWord(p.locations[i], LocationTextOf(t))

BudgetKnownInRange(t, p) ==
    /\ t.budget_max # None
    /\ p.budget_range.min <= t.budget_max[1]
    /\ t.budget_max[1] <= p.budget_range.max

IsDefencePortal(t) == t.portal \in {"HSL (Hindustan Shipyard)", "defproc (Defence)"}

ExpectedWorkPoints(h) == IF h = 0 THEN 0 ELSE 40 + 5 * (IF h - 1 < 4 THEN h - 1 ELSE 4)

ExpectedLocationPoints(t, p) == IF HasLocationHit(t, p) THEN 20 ELSE 0

ExpectedBudgetPoints(t, p) ==
    IF t.budget_max # None
    THEN (IF BudgetKnownInRange(t, p) THEN 15 ELSE 0)
    ELSE IF t.budget_min # None
    THEN (IF t.budget_min[1] <= p.budget_range.max THEN 8 ELSE 0)
    ELSE 0

ExpectedPortalPoints(t) == IF IsDefencePortal(t) THEN 15 ELSE 0

\* the points the tender's own result fields account for
PointsOfLocationFlag(t) == IF t.location_match THEN 20 ELSE 0

PointsOfBudgetFlag(t) ==
    IF t.budget_in_range # Some(TRUE) THEN 0
    ELSE IF t.budget_max # None THEN 15 ELSE 8

CapAt100(n) == IF n > 100 THEN 100 ELSE n

Scored == sc_pc = "scored"

ScoredNotExcluded == Scored /\ ~IsExcluded(sc_tender, sc_profile)

\* 40 + 20 bonus + 20 + 15 + 15 = 110
RawTotalIs110 ==
    /\ ~IsExcluded(sc_tender, sc_profile)
    /\ WorkHitCount(sc_tender, sc_profile) >= 5
    /\ HasLocationHit(sc_tender, sc_profile)
    /\ BudgetKnownInRange(sc_tender, sc_profile)
    /\ IsDefencePortal(sc_tender)

----------------------------------------------------------------------------
(* Claims about score_tender, under SpecScore.                             *)

\* C1: after score_tender returns, match_score is an integer between 0 and
\* 100 for every tender and profile, and a raw total of 110 (40 + 20 bonus
\* + 20 + 15 + 15) is reported as 100.
C1_ScoreWithin0And100 ==
    Scored =>
        /\ sc_tender.match_score \in 0..100
        /\ (RawTotalIs110 => sc_tender.match_score = 100)

C1_Witness_Raw110Reported100 ==
    Scored /\ RawTotalIs110 /\ sc_tender.match_score = 100

C4_WorkContribution ==
    ScoredNotExcluded =>
        LET h == WorkHitCount(sc_tender, sc_profile)
        IN  /\ ExpectedWorkPoints(h) \in {0, 40, 45, 50, 55, 60}
            /\ sc_tender.match_score =
                 CapAt100(ExpectedWorkPoints(h) + PointsOfLocationFlag(sc_tender)
                          + PointsOfBudgetFlag(sc_tender)
                          + ExpectedPortalPoints(sc_tender))

C4_Witness_SixHitsScoreSixty ==
    /\ ScoredNotExcluded
    /\ WorkHitCount(sc_tender, sc_profile) = 6
    /\ sc_tender.match_score = 60

\* C5: for a tender that is not excluded, location_match is true, and 20
\* points are added once, exactly when some profile location keyword occurs
\* in location + department + title between word boundaries,
\* case-insensitively; "AP" hits a standalone "AP" and "(AP)" and does not
\* hit inside "weapons" or "capacity".
C5_LocationIsWholeWord ==
    ScoredNotExcluded =>
        /\ sc_tender.location_match = HasLocationHit(sc_tender, sc_profile)
        /\ sc_tender.match_score =
             CapAt100(ExpectedWorkPoints(WorkHitCount(sc_tender, sc_profile))
                      + ExpectedLocationPoints(sc_tender, sc_profile)
                      + PointsOfBudgetFlag(sc_tender)
                      + ExpectedPortalPoints(sc_tender))
        /\ (/\ sc_profile.locations = <<KwAP>>
            /\ sc_tender.location = Empty
            /\ sc_tender.department = Empty)
           => /\ sc_tender.title \in {TitleStandaloneAP, TitleRoadAP}
                 => sc_tender.location_match
              /\ sc_tender.title \in {TitleWeapons, TitleCapacity}
                 => ~sc_tender.location_match

C5_Witness_APInsideWeaponsNotMatched ==
    /\ ScoredNotExcluded
    /\ sc_profile.locations = <<KwAP>>
    /\ sc_tender.title = TitleWeapons
    /\ sc_tender.location = Empty
    /\ sc_tender.department = Empty
    /\ ~sc_tender.location_match

\* C6: for a tender that is not excluded: with budget_max known,
\* budget_in_range = (profile.min <= budget_max <= profile.max) and 15 points
\* are added iff it is true, budget_min being ignored; with only budget_min
\* known, budget_in_range = (budget_min <= profile.max) and 8 points are
\* added iff it is true; with neither known budget_in_range is None and no
\* points are added.
C6_BudgetStep ==
    ScoredNotExcluded =>
        /\ sc_tender.budget_in_range =
             (IF sc_tender.budget_max # None
              THEN Some(BudgetKnownInRange(sc_tender, sc_profile))
              ELSE IF sc_tender.budget_min # None
              THEN Some(sc_tender.budget_min[1] <= sc_profile.budget_range.max)
              ELSE None)
        /\ sc_tender.match_score =
             CapAt100(ExpectedWorkPoints(WorkHitCount(sc_tender, sc_profile))
                      + PointsOfLocationFlag(sc_tender)
                      + ExpectedBudgetPoints(sc_tender, sc_profile)
                      + ExpectedPortalPoints(sc_tender))

C6_Witness_LowerBoundIgnoredWhenUpperKnown ==
    /\ ScoredNotExcluded
    /\ sc_tender.budget_max # None
    /\ sc_tender.budget_min # None
    /\ sc_tender.budget_min[1] > sc_profile.budget_range.max
    /\ sc_tender.budget_in_range = Some(TRUE)
    /\ sc_tender.match_score = 15

----------------------------------------------------------------------------
(* Claims about filter_tenders, under SpecFilter.                          *)

Filtered == ft_pc = "done"

\* the number of positions of list s holding v
CountIn(s, v) == Cardinality({i \in DOMAIN s : s[i] = v})

ValuesOf(s) == {s[i] : i \in DOMAIN s}

\* C3: for every min_score, 0 included, no tender whose corpus contains an
\* exclude keyword is in the list filter_tenders returns.
C3_NoExcludedTenderReturned ==
    Filtered => \A i \in DOMAIN ft_matched : ~IsExcluded(ft_matched[i], ft_profile)

WithScoreAndDeadline(s, score, deadline) ==
    SelectSeq(s, LAMBDA t : t.match_score = score /\ t.deadline = deadline)

\* C8: the returned list is ordered by match_score descending; among equal
\* scores by deadline ascending, tenders without a deadline after all that
\* have one; tenders equal in score and deadline keep their input order.
\* Scores [lo, hi, lo] with deadlines [D2, D1, D1] come out [hi, lo(D1), lo(D2)].
C8_SortedByScoreThenDeadlineStable ==
    Filtered =>
        /\ \A i, j \in DOMAIN ft_matched :
              i < j =>
                 LET a == ft_matched[i]
                     b == ft_matched[j]
                 IN  /\ a.match_score >= b.match_score
                     /\ a.match_score = b.match_score =>
                           /\ a.deadline = None => b.deadline = None
                           /\ (a.deadline # None /\ b.deadline # None)
                                 => a.deadline[1] <= b.deadline[1]
        /\ \A v \in ValuesOf(ft_matched) :
              WithScoreAndDeadline(ft_matched, v.match_score, v.deadline) =
                 WithScoreAndDeadline(
                    SelectSeq(ft_tenders, LAMBDA t : t.match_score >= ft_min_score),
                    v.match_score, v.deadline)
        /\ (/\ Len(ft_tenders) = 3
            /\ ft_tenders[1].match_score = ft_tenders[3].match_score
            /\ ft_tenders[1].match_score < ft_tenders[2].match_score
            /\ ft_tenders[1].match_score >= ft_min_score
            /\ ft_tenders[1].deadline = Some(2)
            /\ ft_tenders[2].deadline = Some(1)
            /\ ft_tenders[3].deadline = Some(1))
           => ft_matched = <<ft_tenders[2], ft_tenders[3], ft_tenders[1]>>

C8_Witness_Scores50_80_50 ==
    /\ Filtered
    /\ Len(ft_tenders) = 3
    /\ ft_tenders[1].match_score = 50 /\ ft_tenders[1].deadline = Some(2)
    /\ ft_tenders[2].match_score = 80 /\ ft_tenders[2].deadline = Some(1)
    /\ ft_tenders[3].match_score = 50 /\ ft_tenders[3].deadline = Some(1)
    /\ ft_matched = <<ft_tenders[2], ft_tenders[3], ft_tenders[1]>>

----------------------------------------------------------------------------
(* Claims about the adapter run, under Spec.                               *)

PipelineDone == ad_pc = "done"

KeyOf(t) == IF t.tender_id = << >> THEN t.title ELSE t.tender_id

\* the records the HSL merge is applied to: NIC records, then main-site ones
HslMergeInput ==
    HslParseNicPage(ad_rows) \o HslScrapeMainSite(ad_main, ad_hash)

\* the positions of list s whose key occurs at no earlier position
FirstSeen(s) == {i \in DOMAIN s : \A j \in 1..(i - 1) : KeyOf(s[j]) # KeyOf(s[i])}

HslScraped == ad_pc = "scraped" /\ ad_portal = "HSL (Hindustan Shipyard)"

\* C10: the HSL dedup merge returns the input records in first-seen order
\* with exactly one record per dedup key (tender_id when non-empty, else
\* title), the earliest record of each key being the one kept; merging its
\* own output again returns that output unchanged.
C10_MergeKeepsFirstPerKeyInOrder ==
    HslScraped =>
        LET input == HslMergeInput
            first == FirstSeen(input)
        IN  /\ Len(ad_tenders) = Cardinality(first)
            /\ \A i \in first :
                  ad_tenders[Cardinality({j \in first : j <= i})] = input[i]
            /\ \A i, j \in DOMAIN ad_tenders :
                  i # j => KeyOf(ad_tenders[i]) # KeyOf(ad_tenders[j])
            /\ {KeyOf(ad_tenders[i]) : i \in DOMAIN ad_tenders} =
                  {KeyOf(input[i]) : i \in DOMAIN input}
            /\ DedupMerge(ad_tenders) = ad_tenders

C10_Witness_DuplicateIdAndDuplicateTitleCollapsed ==
    /\ HslScraped
    /\ Len(HslMergeInput) = Len(ad_tenders) + 1
    /\ Len(ad_tenders) >= 2
    /\ \E i \in DOMAIN HslMergeInput : i \notin FirstSeen(HslMergeInput)
    /\ \E i \in DOMAIN ad_tenders : ad_tenders[i].tender_id = << >>
    /\ \E i \in DOMAIN ad_tenders : ad_tenders[i].department = DeptHslMain

(***************************************************************************)
(* The paged run of a NIC-style adapter (CpppScraper, ApScraper,           *)
(* DefprocScraper): the plain-fetch loop of scrape(), the switch to        *)
(* _scrape_with_playwright() and its own loop, wrapped by BaseScraper.run. *)
(* A listing page is what the portal serves for one pageIndex: whether the *)
(* GET succeeds, how much visible text the HTML has and whether it carries *)
(* a Loading/noscript marker, the batch _parse_nic_page extracts from the  *)
(* plain HTML, whether the browser load succeeds and the batch extracted   *)
(* from the rendered HTML.  Dates are day numbers.                         *)
(***************************************************************************)
MAX_PAGES_PER_PORTAL == 20

MaxSiteLen == 3

\* str(page_index), for a page number below 100
Decimal(n) ==
    LET digit == <<"0", "1", "2", "3", "4", "5", "6", "7", "8", "9">>
    IN IF n < 10 THEN <<digit[n + 1]>>
       ELSE <<digit[(n \div 10) + 1], digit[(n % 10) + 1]>>

\* the Tender a listing row of page k becomes: cell(1) is the id, the first
\* date cell the published date, the second the deadline
PageTender(portal, k, tag, published_date, deadline) ==
    LET portal_name == CASE portal = "cppp" -> "CPPP (Central eProcure)"
                         [] portal = "ap" -> "AP eProcurement"
                         [] OTHER -> "defproc (Defence)"
    IN NewTender(<<"N", "-">> \o Decimal(k) \o tag, TitleShort, portal_name,
                 Empty, Empty, None, None, published_date, deadline, Empty, Empty)

ListingPage(responses, text_len, marker, batch, load, rendered) ==
    [responses |-> responses, text_len |-> text_len, marker |-> marker, batch |-> batch,
     load |-> load, rendered |-> rendered]

PageKinds ==
    {"full", "old", "lapsed", "short", "shell", "norecords", "terse", "gone", "timeout"}

\* the kinds of page whose GET does not succeed at once
FetchKinds == {"gone", "forbidden", "down", "unreachable", "busy", "flaky", "recovering"}

\* page k of a listing, by kind.  A recent row is published on day 20 with
\* its deadline a week later; an old row has no published date and its
\* deadline on day 3; a lapsed row is published on day 20 with its deadline
\* on day 3.
PageOfKind(portal, kind, k) ==
    LET row == <<PageTender(portal, k, Empty, Some(20), Some(27))>>
        mixed == row \o <<PageTender(portal, k, <<"o">>, None, Some(3))>>
        lapsed == <<PageTender(portal, k, <<"l">>, Some(20), Some(3))>>
        ok == <<Some(200)>>
    IN CASE kind = "full" -> ListingPage(ok, 2400, FALSE, row, "ok", row)
         [] kind = "old" -> ListingPage(ok, 2600, FALSE, mixed, "ok", mixed)
         [] kind = "lapsed" -> ListingPage(ok, 2500, FALSE, lapsed, "ok", lapsed)
         [] kind = "short" -> ListingPage(ok, 180, FALSE, row, "ok", row)
         [] kind = "shell" -> ListingPage(ok, 12, TRUE, << >>, "ok", row)
         [] kind = "norecords" -> ListingPage(ok, 900, FALSE, << >>, "ok", << >>)
         [] kind = "terse" -> ListingPage(ok, 16, FALSE, << >>, "ok", << >>)
         [] kind = "timeout" -> ListingPage(ok, 2400, FALSE, row, "timeout", << >>)
         [] kind = "gone" -> ListingPage(<<Some(404)>>, 0, FALSE, << >>, "ok", row)
         [] kind = "forbidden" -> ListingPage(<<Some(403)>>, 0, FALSE, << >>, "ok", row)
         [] kind = "down" ->
              ListingPage(<<Some(503), Some(500), Some(502), Some(504)>>, 0, FALSE, << >>,
                          "ok", row)
         [] kind = "unreachable" ->
              ListingPage(<<None>>, 0, FALSE, << >>, "ok", row)
         [] kind = "busy" ->
              ListingPage(<<Some(429), Some(429), Some(404)>>, 0, FALSE, << >>, "ok", row)
         [] kind = "flaky" ->
              ListingPage(<<Some(503), None, Some(200)>>, 2400, FALSE, row, "ok", row)
         [] OTHER ->
              ListingPage(<<Some(500), Some(502), Some(429), Some(200)>>, 2400, FALSE,
                          row, "ok", row)

\* what the portal serves for pageIndex k: past the listed pages, an empty listing
PageAt(portal, site, k) ==
    PageOfKind(portal, IF k <= Len(site) THEN site[k] ELSE "norecords", k)

status_forcelist_with_404 == {404, 429, 500, 502, 503, 504}

\* Retry(total=3, backoff_factor=1.5, status_forcelist=[429, 500, 502, 503, 504])
status_forcelist == {429, 500, 502, 503, 504}

RECURSIVE SessionGet(_, _, _)
\* self.session.get(url, timeout=20) through the HTTPAdapter with max_retries:
\* responses[attempt] is what the attempt meets (the last one repeats): the
\* status of the response, or None when the connection fails; a connection
\* error or a forcelist status uses up one retry, and with none left the
\* adapter raises (ConnectionError / RetryError)
SessionGet(responses, attempt, total) ==
    LET met == responses[IF attempt <= Len(responses) THEN attempt ELSE Len(responses)]
    IN IF met = None \/ met[1] \in status_forcelist
       THEN IF total = 0
            THEN [raised |-> TRUE, status |-> 0, attempts |-> attempt]
            ELSE SessionGet(responses, attempt + 1, total - 1)
       ELSE [raised |-> FALSE, status |-> met[1], attempts |-> attempt]

\* BaseScraper.get: the response, or None when session.get or
\* resp.raise_for_status() raises a RequestException
get(responses) ==
    LET r == SessionGet(responses, 1, 3)
    IN [resp |-> IF r.raised \/ r.status >= 400 THEN None ELSE Some(r.status),
        attempts |-> r.attempts]

_is_js_shell(portal, page) ==
    IF portal = "cppp" THEN page.text_len < 500
    ELSE page.text_len < 500 /\ page.marker

CutoffReached_never(batch, cutoff_date) == FALSE

\* dates = [t.published_date or t.deadline for t in batch if (...)];
\* dates and min(dates) < self.cutoff_date
CutoffReached(batch, cutoff_date) ==
    LET date(t) == IF t.published_date # None THEN t.published_date ELSE t.deadline
        dates == {date(batch[i])[1] : i \in {j \in 1..Len(batch) : date(batch[j]) # None}}
    IN /\ dates # {}
       /\ \E d \in dates : (\A e \in dates : d <= e) /\ d < cutoff_date

Extend_recent_only(tenders, batch, cutoff_date) ==
    tenders \o SelectSeq(batch, LAMBDA t : ~CutoffReached(<<t>>, cutoff_date))

\* tenders.extend(batch): the whole batch, whatever its dates
Extend(tenders, batch, cutoff_date) == tenders \o batch

\* the loop is left and BaseScraper.run returns the list
Returns(stop, tenders) ==
    /\ pg_stop' = stop
    /\ pg_result' = tenders
    /\ pg_pc' = "done"
    /\ UNCHANGED <<pg_mode, pg_page_index>>

\* one iteration of the while loop of scrape()
PlainFetch ==
    /\ pg_pc = "loop" /\ pg_mode = "plain"
    /\ pg_page_index <= MAX_PAGES_PER_PORTAL
    /\ LET page == PageAt(pg_portal, pg_site, pg_page_index)
           resp == get(page.responses).resp
           shell == resp # None /\ _is_js_shell(pg_portal, page)
           parsed == resp # None /\ ~shell
           batch == IF parsed THEN page.batch ELSE << >>
           tenders == Extend(pg_tenders, batch, pg_cutoff_date)
       IN /\ pg_log' = Append(pg_log, [page |-> pg_page_index, via |-> "plain",
                                        parsed |-> parsed, batch |-> batch,
                                        attempts |-> get(page.responses).attempts,
                                        failed |-> resp = None])
          /\ IF resp = None
             THEN pg_tenders' = pg_tenders /\ Returns("fetch_failed", pg_tenders)
             ELSE IF shell
             THEN IF pg_browser = "not_installed"
                  THEN pg_tenders' = << >> /\ Returns("import_error", << >>)
                  ELSE IF pg_browser = "launch_error"
                  THEN pg_tenders' = << >> /\ Returns("exception", << >>)
                  ELSE /\ pg_tenders' = << >>
                       /\ pg_mode' = "browser"
                       /\ pg_page_index' = 1
                       /\ UNCHANGED <<pg_stop, pg_result, pg_pc>>
             ELSE IF batch = << >>
             THEN pg_tenders' = pg_tenders /\ Returns("empty", pg_tenders)
             ELSE /\ pg_tenders' = tenders
                  /\ IF CutoffReached(batch, pg_cutoff_date)
                     THEN Returns("cutoff", tenders)
                     ELSE /\ pg_page_index' = pg_page_index + 1
                          /\ UNCHANGED <<pg_mode, pg_stop, pg_result, pg_pc>>
    /\ UNCHANGED <<pg_portal, pg_site, pg_browser, pg_cutoff_date>>
    /\ UNCHANGED <<scoreVars, filterVars, adapterVars, orchVars, dashVars, callVars>>

\* the while condition of scrape() fails: return tenders
PlainCap ==
    /\ pg_pc = "loop" /\ pg_mode = "plain"
    /\ pg_page_index > MAX_PAGES_PER_PORTAL
    /\ Returns("cap", pg_tenders)
    /\ UNCHANGED <<pg_portal, pg_site, pg_browser, pg_cutoff_date, pg_tenders, pg_log>>
    /\ UNCHANGED <<scoreVars, filterVars, adapterVars, orchVars, dashVars, callVars>>

\* one iteration of the while loop of _scrape_with_playwright(); only
\* DefprocScraper checks the cutoff there
BrowserLoad ==
    /\ pg_pc = "loop" /\ pg_mode = "browser"
    /\ pg_page_index <= MAX_PAGES_PER_PORTAL
    /\ LET page == PageAt(pg_portal, pg_site, pg_page_index)
           parsed == page.load = "ok"
           batch == IF parsed THEN page.rendered ELSE << >>
           tenders == Extend(pg_tenders, batch, pg_cutoff_date)
       IN /\ pg_log' = Append(pg_log, [page |-> pg_page_index, via |-> "browser",
                                        parsed |-> parsed, batch |-> batch,
                                        attempts |-> 0, failed |-> ~parsed])
          /\ IF ~parsed
             THEN pg_tenders' = pg_tenders /\ Returns("timeout", pg_tenders)
             ELSE IF batch = << >>
             THEN pg_tenders' = pg_tenders /\ Returns("empty", pg_tenders)
             ELSE /\ pg_tenders' = tenders
                  /\ IF pg_portal = "defproc" /\ CutoffReached(batch, pg_cutoff_date)
                     THEN Returns("cutoff", tenders)
                     ELSE /\ pg_page_index' = pg_page_index + 1
                          /\ UNCHANGED <<pg_mode, pg_stop, pg_result, pg_pc>>
    /\ UNCHANGED <<pg_portal, pg_site, pg_browser, pg_cutoff_date>>
    /\ UNCHANGED <<scoreVars, filterVars, adapterVars, orchVars, dashVars, callVars>>

\* the while condition of _scrape_with_playwright() fails: return tenders
BrowserCap ==
    /\ pg_pc = "loop" /\ pg_mode = "browser"
    /\ pg_page_index > MAX_PAGES_PER_PORTAL
    /\ Returns("cap", pg_tenders)
    /\ UNCHANGED <<pg_portal, pg_site, pg_browser, pg_cutoff_date, pg_tenders, pg_log>>
    /\ UNCHANGED <<scoreVars, filterVars, adapterVars, orchVars, dashVars, callVars>>

\* the listings: every sequence of at most MaxSiteLen page kinds, and
\* listings longer than the page cap whose page 1 and page 20 vary; PageRuns
\* adds listings with a page whose GET fails or needs retries
ListingKinds ==
    ListsUpTo(PageKinds, MaxSiteLen)
    \cup {[k \in 1..(MAX_PAGES_PER_PORTAL + 2) |->
             IF k = 1 THEN first ELSE IF k = MAX_PAGES_PER_PORTAL THEN last ELSE "full"] :
          first \in {"full", "shell"}, last \in {"full", "shell", "short"}}

PageRuns ==
    {<<portal, kinds, "ok">> : portal \in {"cppp", "ap", "defproc"}, kinds \in ListingKinds}
    \cup {<<portal, kinds, "ok">> : portal \in {"cppp", "ap", "defproc"},
            kinds \in UNION {{<<f>>, <<"full", f>>, <<"full", f, "old">>} : f \in FetchKinds}}
    \cup {<<portal, kinds, browser>> : portal \in {"cppp", "ap", "defproc"},
            kinds \in {<<"shell">>, <<"full", "shell">>, <<"full", "terse">>},
            browser \in {"not_installed", "launch_error"}}

InitPages ==
    /\ \E run \in PageRuns :
         /\ pg_portal = run[1]
         /\ pg_site = run[2]
         /\ pg_browser = run[3]
    /\ pg_cutoff_date = 10
    /\ pg_mode = "plain"
    /\ pg_page_index = 1
    /\ pg_tenders = << >>
    /\ pg_log = << >>
    /\ pg_stop = ""
    /\ pg_result = << >>
    /\ pg_pc = "loop"
    /\ ScoreOff
    /\ FilterOff
    /\ AdapterOff
    /\ OrchOff
    /\ DashOff
    /\ CallOff

NextPages == PlainFetch \/ PlainCap \/ BrowserLoad \/ BrowserCap

SpecPages == InitPages /\ [][NextPages]_vars

(***************************************************************************)
(* Claims about the paged run, stated over the record of page loads.       *)
(***************************************************************************)
PagesDone == pg_pc = "done"

RECURSIVE BatchesOf(_, _, _)
\* the batches of loads from..to of a load record, one after the other
BatchesOf(log, from, to) ==
    IF from > to THEN << >> ELSE log[from].batch \o BatchesOf(log, from + 1, to)

InList(t, list) == \E i \in 1..Len(list) : list[i] = t

\* a load whose HTML went through _parse_nic_page and gave no record
ParsedEmpty(load) == load.parsed /\ load.batch = << >>

\* the plain fetch of a page gave a JS shell and the browser loads that same page
FallbackForSamePage(a, b) ==
    /\ a.via = "plain" /\ ~a.parsed
    /\ b.via = "browser" /\ b.page = a.page

HasDateBefore(batch, day) ==
    \E i \in 1..Len(batch) :
        \/ batch[i].published_date # << >> /\ batch[i].published_date[1] < day
        \/ batch[i].published_date = << >> /\ batch[i].deadline # << >>
              /\ batch[i].deadline[1] < day

\* the loops that test the cutoff: every plain loop, and defproc's browser loop
LoopTestsCutoff(load) == load.via = "plain" \/ pg_portal = "defproc"

\* C12: pages are loaded in strictly increasing index order starting at 1 (a
\* browser load of the very page whose plain fetch was a JS shell is counted
\* as the same load); the first page whose parsed batch is empty is the last
\* page loaded, and the run returns exactly the batches of the pages before
\* it, in page order.
C12_PagesInIncreasingOrderStopAtFirstEmpty ==
    /\ pg_log # << >> => pg_log[1].page = 1
    /\ \A i \in 1..(Len(pg_log) - 1) :
          \/ pg_log[i + 1].page > pg_log[i].page
          \/ FallbackForSamePage(pg_log[i], pg_log[i + 1])
    /\ \A i \in 1..Len(pg_log) :
          ParsedEmpty(pg_log[i]) =>
             /\ i = Len(pg_log)
             /\ PagesDone
             /\ pg_result = BatchesOf(pg_log, 1, i - 1)

C14_LoadsWithinPageCap == Len(pg_log) <= MAX_PAGES_PER_PORTAL

\* C15: when the run has ended, every record parsed from a page loaded during
\* the run is in the returned list.
C15_EveryParsedRecordReturned ==
    PagesDone =>
        \A i \in 1..Len(pg_log) :
            \A j \in 1..Len(pg_log[i].batch) : InList(pg_log[i].batch[j], pg_result)

\* what attempt a of the fetch of page k meets: a status, or << >> for a
\* connection error
MetBy(k, a) ==
    LET responses == PageAt(pg_portal, pg_site, k).responses
    IN IF a <= Len(responses) THEN responses[a] ELSE responses[Len(responses)]

IsTransient(met) == met = << >> \/ met[1] \in {429, 500, 502, 503, 504}

\* C17: a fetch makes at most 1 + 3 attempts, each retry following a
\* 429/500/502/503/504 response or a connection error, and goes on as long as
\* retries are left, so any other status ends it at once; it fails exactly
\* when its last attempt meets a connection error or an HTTP error status,
\* and then it yields None: the run ends there without an exception and
\* returns the records accumulated from the pages before.
C17_FetchRetriesTransientOnlyAndFailsSoftly ==
    \A i \in 1..Len(pg_log) :
        pg_log[i].via = "plain" =>
            LET k == pg_log[i].page
                n == pg_log[i].attempts
            IN /\ n \in 1..(1 + 3)
               /\ \A a \in 1..(n - 1) : IsTransient(MetBy(k, a))
               /\ n < 1 + 3 => ~IsTransient(MetBy(k, n))
               /\ pg_log[i].failed <=> (IsTransient(MetBy(k, n)) \/ MetBy(k, n)[1] >= 400)
               /\ pg_log[i].failed =>
                     /\ i = Len(pg_log)
                     /\ PagesDone
                     /\ pg_stop = "fetch_failed"
                     /\ pg_result = BatchesOf(pg_log, 1, i - 1)

\* C17 witness: page 1 is fetched at once, the fetch of page 2 meets 503,
\* 500, 502 and 504, gives up after the fourth attempt, and the run returns
\* the record of page 1.
C17_Witness_FourAttemptsThenPageOneReturned ==
    /\ PagesDone
    /\ Len(pg_log) = 2
    /\ pg_log[1].attempts = 1 /\ ~pg_log[1].failed
    /\ pg_log[2].attempts = 4 /\ pg_log[2].failed
    /\ MetBy(2, 4) = <<504>>
    /\ pg_result = pg_log[1].batch
    /\ Len(pg_result) = 1

(***************************************************************************)
(* The orchestrator, run_scraper: build the enabled adapters, call run()   *)
(* on each in turn, extend all_tenders with what it returns, then score    *)
(* and filter.  What scrape() of an adapter does is an input: it returns a *)
(* list or raises an Exception.                                            *)
(***************************************************************************)
\* the adapters in the order _build_scrapers appends them
_build_scrapers(portals) ==
    SelectSeq(<<"gem", "cppp", "ap_eprocurement", "hsl">>, LAMBDA name : name \in portals)

run_discarding(outcome) == << >>

\* BaseScraper.run: try: return self.scrape() / except Exception: return []
run(outcome) == IF outcome.raises THEN << >> ELSE outcome.tenders

OrchTender(portal, tender_id, title) ==
    NewTender(tender_id, title, portal, Empty, Empty, None, None, None, None, Empty, Empty)

\* what scrape() can do, per adapter.  GemScraper keeps one record per
\* non-empty bid number and HslScraper one per key; CpppScraper and
\* ApScraper append every row of every page.
ScrapeOutcomes(name) ==
    LET Raised == [raises |-> TRUE, tenders |-> << >>]
        Returned(tenders) == [raises |-> FALSE, tenders |-> tenders]
        g == OrchTender("GeM", IdA, TitlePaintingVizag)
        c1 == OrchTender("CPPP (Central eProcure)", IdA, TitlePaintingVizag)
        c2 == OrchTender("CPPP (Central eProcure)", IdB, TitleCanteen)
        a1 == OrchTender("AP eProcurement", Empty, TitleRoadAP)
        a2 == OrchTender("AP eProcurement", IdB, TitleCanteen)
        h == OrchTender("HSL (Hindustan Shipyard)", Empty, TitlePaintingVizag)
    IN CASE name = "gem" -> {Raised, Returned(<< >>), Returned(<<g>>)}
         [] name = "cppp" ->
              {Raised, Returned(<< >>), Returned(<<c1>>), Returned(<<c1, c2>>),
               Returned(<<c2, c1, c2>>)}
         [] name = "ap_eprocurement" ->
              {Raised, Returned(<< >>), Returned(<<a1>>), Returned(<<a2>>)}
         [] OTHER -> {Raised, Returned(<< >>), Returned(<<h>>)}

InitOrch ==
    /\ or_portals \in SUBSET {"gem", "cppp", "ap_eprocurement", "hsl"}
    /\ or_outcomes \in [or_portals -> UNION {ScrapeOutcomes(n) : n \in or_portals}]
    /\ \A n \in or_portals : or_outcomes[n] \in ScrapeOutcomes(n)
    /\ or_scrapers = << >>
    /\ or_next = 0
    /\ or_ran = << >>
    /\ or_all_tenders = << >>
    /\ or_matched = << >>
    /\ or_pc = "start"
    /\ ScoreOff
    /\ FilterOff
    /\ AdapterOff
    /\ PageOff
    /\ DashOff
    /\ CallOff

\* scrapers = _build_scrapers(); all_tenders = []
BuildScrapers ==
    /\ or_pc = "start"
    /\ or_scrapers' = _build_scrapers(or_portals)
    /\ or_next' = 1
    /\ or_all_tenders' = << >>
    /\ or_pc' = "loop"
    /\ UNCHANGED <<or_portals, or_outcomes, or_ran, or_matched>>
    /\ UNCHANGED <<scoreVars, filterVars, adapterVars, pageVars, dashVars, callVars>>

\* batch = scraper.run(); all_tenders.extend(batch)
RunScraper ==
    /\ or_pc = "loop"
    /\ or_next <= Len(or_scrapers)
    /\ LET batch == run(or_outcomes[or_scrapers[or_next]])
       IN or_all_tenders' = or_all_tenders \o batch
    /\ or_ran' = Append(or_ran, or_scrapers[or_next])
    /\ or_next' = or_next + 1
    /\ UNCHANGED <<or_portals, or_outcomes, or_scrapers, or_matched, or_pc>>
    /\ UNCHANGED <<scoreVars, filterVars, adapterVars, pageVars, dashVars, callVars>>

\* the for loop is exhausted
LoopEnds ==
    /\ or_pc = "loop"
    /\ or_next > Len(or_scrapers)
    /\ or_pc' = "scraped"
    /\ UNCHANGED <<or_portals, or_outcomes, or_scrapers, or_next, or_ran, or_all_tenders,
                   or_matched>>
    /\ UNCHANGED <<scoreVars, filterVars, adapterVars, pageVars, dashVars, callVars>>

\* if not all_tenders: return None
NoTenders ==
    /\ or_pc = "scraped"
    /\ or_all_tenders = << >>
    /\ or_pc' = "empty"
    /\ UNCHANGED <<or_portals, or_outcomes, or_scrapers, or_next, or_ran, or_all_tenders,
                   or_matched>>
    /\ UNCHANGED <<scoreVars, filterVars, adapterVars, pageVars, dashVars, callVars>>

\* matched = filter_tenders(all_tenders, profile, min_score=min_score)
FilterAll ==
    /\ or_pc = "scraped"
    /\ or_all_tenders # << >>
    /\ or_all_tenders' = ScoreAll(or_all_tenders, ProfilePaintingVizag)
    /\ or_matched' = filter_tenders(or_all_tenders, ProfilePaintingVizag, DEFAULT_MIN_SCORE)
    /\ or_pc' = "done"
    /\ UNCHANGED <<or_portals, or_outcomes, or_scrapers, or_next, or_ran>>
    /\ UNCHANGED <<scoreVars, filterVars, adapterVars, pageVars, dashVars, callVars>>

NextOrch == BuildScrapers \/ RunScraper \/ LoopEnds \/ NoTenders \/ FilterAll

SpecOrch == InitOrch /\ [][NextOrch]_vars

(***************************************************************************)
(* Claims about the orchestrator.                                          *)
(***************************************************************************)
\* every adapter has been run and the list is about to be scored
HandedToScoring == or_pc = "scraped"

RECURSIVE ListsOfAdapters(_)
\* what the adapters named in names returned, one list after the other; an
\* adapter whose scrape() raised counts for nothing
ListsOfAdapters(names) ==
    IF names = << >> THEN << >>
    ELSE (IF or_outcomes[Head(names)].raises THEN << >> ELSE or_outcomes[Head(names)].tenders)
         \o ListsOfAdapters(Tail(names))

\* name a is built before name b
BuiltBefore(a, b) ==
    \/ a = "gem" /\ b # "gem"
    \/ a = "cppp" /\ b \in {"ap_eprocurement", "hsl"}
    \/ a = "ap_eprocurement" /\ b = "hsl"

\* C11: the list handed to scoring holds no two records with the same dedup
\* key (tender_id if non-empty, else title).
C11_NoDuplicateKeysHandedToScoring ==
    HandedToScoring =>
        \A i, j \in DOMAIN or_all_tenders :
            i < j => KeyOf(or_all_tenders[i]) # KeyOf(or_all_tenders[j])

\* C16: run() always returns a list; when the loop over the adapters is
\* over, every enabled adapter has been run exactly once, in build order,
\* whether or not an earlier scrape() raised, and all_tenders is what the
\* adapters whose scrape() returned gave, unchanged and in that order.
C16_FailedAdapterContributesNothingOthersUnchanged ==
    HandedToScoring =>
        /\ {or_ran[i] : i \in DOMAIN or_ran} = or_portals
        /\ \A i, j \in DOMAIN or_ran : i < j => BuiltBefore(or_ran[i], or_ran[j])
        /\ or_all_tenders = ListsOfAdapters(or_ran)

\* C16 witness: the first adapter run raised, a later one returned two
\* records, and exactly those are aggregated.
C16_Witness_FirstAdapterRaisedLaterOnesAggregated ==
    /\ HandedToScoring
    /\ Len(or_ran) >= 2
    /\ or_outcomes[or_ran[1]].raises
    /\ \E i \in 2..Len(or_ran) : Len(or_outcomes[or_ran[i]].tenders) = 2
    /\ Len(or_all_tenders) = 2

(***************************************************************************)
(* The dashboard: POST /run-scraper requests (trigger_scrape), each on its *)
(* own request thread, the _do_scrape thread an accepted request starts,   *)
(* the module globals they share and _lock.  A thread is <<"request", r>>  *)
(* or <<"worker", r>>, r being the request.  Each _set_progress call is    *)
(* one step.                                                               *)
(***************************************************************************)
MaxTriggers == 3

AlreadyRunning_never(status) == FALSE

\* if scrape_status == "running": return ..., 409
AlreadyRunning(status) == status = "running"

\* the (label, scraper) pairs _do_scrape builds
scraper_list(portals) == SelectSeq(<<"gem", "cppp">>, LAMBDA name : name \in portals)

\* _set_progress(pct, stage): two plain assignments to the globals
_set_progress(pct, stage) ==
    /\ db_progress' = pct
    /\ db_stage' = stage

\* the state of the module when the server has started: the globals as
\* webapp.py initialises them, config as loaded from my_profile.yaml, no
\* request made yet; page says whether a page is about to call loadData
DashStart(requests, flags, page) ==
    /\ db_portals \in flags
    \* GemScraper.scrape raises or finds one bid, CpppScraper.scrape returns
    \* two records or none, ApScraper.scrape one
    /\ db_outcomes \in [db_portals -> UNION {ScrapeOutcomes(n) : n \in db_portals}]
    /\ \A n \in db_portals :
          /\ db_outcomes[n] \in ScrapeOutcomes(n)
          /\ (n = "gem" => db_outcomes[n].raises)
          /\ (n = "cppp" => Len(db_outcomes[n].tenders) \in {0, 2})
          /\ (n = "ap_eprocurement" => Len(db_outcomes[n].tenders) = 1)
    /\ db_status = "idle"
    /\ db_progress = 0
    /\ db_stage = ""
    /\ db_error = ""
    /\ db_last_run_ts = 0
    /\ db_all_tenders = << >>
    /\ db_matched_tenders = << >>
    /\ db_lock = << >>
    /\ db_request = [r \in requests |-> [pc |-> "idle", saw |-> "", code |-> 0]]
    /\ db_worker = [r \in requests |->
                       [pc |-> "none", i |-> 0, raw |-> << >>, matched |-> << >>,
                        ran |-> << >>, started_with |-> None, scored_with |-> None,
                        report |-> "none"]]
    /\ db_config = [CONTRACTOR_PROFILE |-> ProfilePaintingVizag,
                    DEFAULT_MIN_SCORE |-> DEFAULT_MIN_SCORE, reloads |-> 0]
    /\ db_reader = [pc |-> IF page THEN "loading" ELSE "off", matched |-> None,
                    all |-> None]
    /\ ScoreOff
    /\ FilterOff
    /\ AdapterOff
    /\ PageOff
    /\ OrchOff
    /\ CallOff

InitDash == DashStart(1..MaxTriggers, {{"gem", "cppp"}, {"cppp"}}, FALSE)

\* trigger_scrape: with _lock: (enter)
TriggerAcquire(r) ==
    /\ db_request[r].pc = "idle"
    /\ db_lock = << >>
    /\ db_lock' = <<"request", r>>
    /\ db_request' = [db_request EXCEPT ![r].pc = "locked"]
    /\ UNCHANGED <<db_config, db_reader, db_portals,
                   db_outcomes, db_status, db_progress, db_stage, db_error,
                   db_last_run_ts, db_all_tenders, db_matched_tenders, db_worker>>
    /\ UNCHANGED <<scoreVars, filterVars, adapterVars, pageVars, orchVars, callVars>>

\* trigger_scrape: the body of the with block, and leaving it
TriggerCheck(r) ==
    /\ db_request[r].pc = "locked"
    /\ db_lock = <<"request", r>>
    /\ IF AlreadyRunning(db_status)
       THEN /\ db_request' = [db_request EXCEPT
                                  ![r] = [pc |-> "returned", saw |-> db_status, code |-> 409]]
            /\ UNCHANGED db_status
       ELSE /\ db_request' = [db_request EXCEPT
                                  ![r] = [pc |-> "starting", saw |-> db_status, code |-> 0]]
            /\ db_status' = "running"
    /\ db_lock' = << >>
    /\ UNCHANGED <<db_config, db_reader, db_portals, db_outcomes, db_progress, db_stage, db_error,
                   db_last_run_ts, db_all_tenders, db_matched_tenders, db_worker>>
    /\ UNCHANGED <<scoreVars, filterVars, adapterVars, pageVars, orchVars, callVars>>

\* trigger_scrape: threading.Thread(target=_do_scrape, daemon=True).start(); return ..., 202
TriggerStart(r) ==
    /\ db_request[r].pc = "starting"
    /\ db_request' = [db_request EXCEPT ![r].pc = "returned", ![r].code = 202]
    /\ db_worker' = [db_worker EXCEPT ![r].pc = "init"]
    /\ UNCHANGED <<db_config, db_reader, db_portals,
                   db_outcomes, db_status, db_progress, db_stage, db_error,
                   db_last_run_ts, db_all_tenders, db_matched_tenders, db_lock>>
    /\ UNCHANGED <<scoreVars, filterVars, adapterVars, pageVars, orchVars, callVars>>

\* _do_scrape: _set_progress(0, "Initialising scrapers…"); scraper_list; raw = []
WorkerInit(r) ==
    /\ db_worker[r].pc = "init"
    /\ _set_progress(0, "Initialising scrapers")
    /\ db_worker' = [db_worker EXCEPT
                        ![r].pc = "adapter", ![r].i = 0, ![r].raw = << >>,
                        ![r].started_with = Some(db_config.CONTRACTOR_PROFILE)]
    /\ UNCHANGED <<db_config, db_reader, db_portals,
                   db_outcomes, db_status, db_error, db_last_run_ts,
                   db_all_tenders, db_matched_tenders, db_lock, db_request>>
    /\ UNCHANGED <<scoreVars, filterVars, adapterVars, pageVars, orchVars, callVars>>

\* _do_scrape: _set_progress(start_pct, f"Connecting to {label} portal…")
WorkerConnect(r) ==
    /\ db_worker[r].pc = "adapter"
    /\ db_worker[r].i < Len(scraper_list(db_portals))
    /\ _set_progress(5 + ((db_worker[r].i * 67) \div Len(scraper_list(db_portals))), "Connecting")
    /\ db_worker' = [db_worker EXCEPT ![r].pc = "connected"]
    /\ UNCHANGED <<db_config, db_reader, db_portals,
                   db_outcomes, db_status, db_error, db_last_run_ts,
                   db_all_tenders, db_matched_tenders, db_lock, db_request>>
    /\ UNCHANGED <<scoreVars, filterVars, adapterVars, pageVars, orchVars, callVars>>

\* _do_scrape: batch = scraper.run(); raw.extend(batch); _set_progress(end_pct, f"{label} done …")
WorkerScrape(r) ==
    /\ db_worker[r].pc = "connected"
    /\ LET i == db_worker[r].i
           batch == run(db_outcomes[scraper_list(db_portals)[i + 1]])
       IN /\ _set_progress(5 + (((i + 1) * 67) \div Len(scraper_list(db_portals))), "Adapter done")
          /\ db_worker' = [db_worker EXCEPT
                              ![r].pc = "adapter", ![r].i = i + 1,
                              ![r].raw = db_worker[r].raw \o batch,
                              ![r].ran = Append(db_worker[r].ran,
                                                scraper_list(db_portals)[i + 1])]
    /\ UNCHANGED <<db_config, db_reader, db_portals,
                   db_outcomes, db_status, db_error, db_last_run_ts,
                   db_all_tenders, db_matched_tenders, db_lock, db_request>>
    /\ UNCHANGED <<scoreVars, filterVars, adapterVars, pageVars, orchVars, callVars>>

\* _do_scrape: _set_progress(75, "Scoring and filtering …"); matched = filter_tenders(...);
\* the call raises when the profile reloaded from the settings is unusable
WorkerScore(r) ==
    /\ db_worker[r].pc = "adapter"
    /\ db_worker[r].i = Len(scraper_list(db_portals))
    /\ _set_progress(75, "Scoring and filtering")
    /\ \E raises \in BOOLEAN :
          db_worker' =
             IF raises THEN [db_worker EXCEPT ![r].pc = "except"]
             ELSE [db_worker EXCEPT
                      ![r].pc = "scored",
                      ![r].scored_with = Some(db_config.CONTRACTOR_PROFILE),
                      ![r].raw = ScoreAll(db_worker[r].raw, db_config.CONTRACTOR_PROFILE),
                      ![r].matched = filter_tenders(db_worker[r].raw,
                                                    db_config.CONTRACTOR_PROFILE,
                                                    db_config.DEFAULT_MIN_SCORE)]
    /\ UNCHANGED <<db_config, db_reader, db_portals,
                   db_outcomes, db_status, db_error, db_last_run_ts,
                   db_all_tenders, db_matched_tenders, db_lock, db_request>>
    /\ UNCHANGED <<scoreVars, filterVars, adapterVars, pageVars, orchVars, callVars>>

\* _do_scrape: _set_progress(88, "… saving Excel report…"); export_to_excel(matched, raw)
\* writes the two-sheet file whatever the lists hold, or raises, which is only logged
WorkerExport(r) ==
    /\ db_worker[r].pc = "scored"
    /\ _set_progress(88, "Saving Excel report")
    /\ \E report \in {"saved", "failed"} :
          db_worker' = [db_worker EXCEPT ![r].pc = "exported", ![r].report = report]
    /\ UNCHANGED <<db_config, db_reader, db_portals,
                   db_outcomes, db_status, db_error, db_last_run_ts,
                   db_all_tenders, db_matched_tenders, db_lock, db_request>>
    /\ UNCHANGED <<scoreVars, filterVars, adapterVars, pageVars, orchVars, callVars>>

\* _do_scrape: _set_progress(98, "Wrapping up …")
WorkerWrapUp(r) ==
    /\ db_worker[r].pc = "exported"
    /\ _set_progress(98, "Wrapping up")
    /\ db_worker' = [db_worker EXCEPT ![r].pc = "wrapped"]
    /\ UNCHANGED <<db_config, db_reader, db_portals,
                   db_outcomes, db_status, db_error, db_last_run_ts,
                   db_all_tenders, db_matched_tenders, db_lock, db_request>>
    /\ UNCHANGED <<scoreVars, filterVars, adapterVars, pageVars, orchVars, callVars>>

\* _do_scrape: with _lock: (enter), on the normal path and in the except block
WorkerAcquire(r) ==
    /\ db_worker[r].pc \in {"wrapped", "except"}
    /\ db_lock = << >>
    /\ db_lock' = <<"worker", r>>
    /\ db_worker' = [db_worker EXCEPT
                        ![r].pc = IF db_worker[r].pc = "wrapped" THEN "commit" ELSE "report"]
    /\ UNCHANGED <<db_config, db_reader, db_portals,
                   db_outcomes, db_status, db_progress, db_stage, db_error,
                   db_last_run_ts, db_all_tenders, db_matched_tenders, db_request>>
    /\ UNCHANGED <<scoreVars, filterVars, adapterVars, pageVars, orchVars, callVars>>

\* _do_scrape: the with block of the normal path, and leaving it
WorkerCommit(r) ==
    /\ db_worker[r].pc = "commit"
    /\ db_lock = <<"worker", r>>
    /\ db_all_tenders' = db_worker[r].raw
    /\ db_matched_tenders' = db_worker[r].matched
    /\ db_last_run_ts' = db_last_run_ts + 1
    /\ db_status' = "done"
    /\ db_error' = ""
    /\ db_progress' = 100
    /\ db_stage' = "Complete"
    /\ db_lock' = << >>
    /\ db_worker' = [db_worker EXCEPT ![r].pc = "finished"]
    /\ UNCHANGED <<db_config, db_reader, db_portals, db_outcomes, db_request>>
    /\ UNCHANGED <<scoreVars, filterVars, adapterVars, pageVars, orchVars, callVars>>

WorkerReportError_keeps_running(r) ==
    /\ db_worker[r].pc = "report"
    /\ db_lock = <<"worker", r>>
    /\ db_lock' = << >>
    /\ db_worker' = [db_worker EXCEPT ![r].pc = "failed"]
    /\ UNCHANGED <<db_config, db_reader, db_portals, db_outcomes, db_status, db_error,
                   db_stage, db_progress, db_last_run_ts, db_all_tenders,
                   db_matched_tenders, db_request>>
    /\ UNCHANGED <<scoreVars, filterVars, adapterVars, pageVars, orchVars, callVars>>

WorkerReportError_clearing(r) ==
    /\ db_worker[r].pc = "report"
    /\ db_lock = <<"worker", r>>
    /\ db_status' = "error"
    /\ db_error' = "exc"
    /\ db_stage' = "Error: exc"
    /\ db_all_tenders' = << >>
    /\ db_matched_tenders' = << >>
    /\ db_lock' = << >>
    /\ db_worker' = [db_worker EXCEPT ![r].pc = "failed"]
    /\ UNCHANGED <<db_config, db_reader, db_portals, db_outcomes, db_progress,
                   db_last_run_ts, db_request>>
    /\ UNCHANGED <<scoreVars, filterVars, adapterVars, pageVars, orchVars, callVars>>

\* _do_scrape: the with block of the except branch, and leaving it
WorkerReportError(r) ==
    /\ db_worker[r].pc = "report"
    /\ db_lock = <<"worker", r>>
    /\ db_status' = "error"
    /\ db_error' = "exc"
    /\ db_stage' = "Error: exc"
    /\ db_lock' = << >>
    /\ db_worker' = [db_worker EXCEPT ![r].pc = "failed"]
    /\ UNCHANGED <<db_config, db_reader, db_portals,
                   db_outcomes, db_progress, db_last_run_ts, db_all_tenders,
                   db_matched_tenders, db_request>>
    /\ UNCHANGED <<scoreVars, filterVars, adapterVars, pageVars, orchVars, callVars>>

NextDash ==
    \E r \in DOMAIN db_request :
        \/ TriggerAcquire(r)
        \/ TriggerCheck(r)
        \/ TriggerStart(r)
        \/ WorkerInit(r)
        \/ WorkerConnect(r)
        \/ WorkerScrape(r)
        \/ WorkerScore(r)
        \/ WorkerExport(r)
        \/ WorkerWrapUp(r)
        \/ WorkerAcquire(r)
        \/ WorkerCommit(r)
        \/ WorkerReportError(r)

SpecDash == InitDash /\ [][NextDash]_vars

MaxFairRuns == 2

\* the threads are scheduled: a request thread that is inside trigger_scrape
\* goes on to its return, and a started _do_scrape thread takes its next
\* step, the blocking acquire of _lock included once the lock stays free;
\* whether a request is made at all is left open
DashFairness ==
    \A r \in 1..MaxFairRuns :
        /\ WF_vars(TriggerCheck(r) \/ TriggerStart(r))
        /\ WF_vars(WorkerInit(r) \/ WorkerConnect(r) \/ WorkerScrape(r) \/ WorkerScore(r)
                   \/ WorkerExport(r) \/ WorkerWrapUp(r) \/ WorkerAcquire(r)
                   \/ WorkerCommit(r) \/ WorkerReportError(r))

\* CPPP alone is switched on; its scrape returns two records or none
SpecDashFair ==
    /\ DashStart(1..MaxFairRuns, {{"cppp"}}, FALSE)
    /\ [][NextDash]_vars
    /\ DashFairness

(***************************************************************************)
(* The dashboard with its other routes: POST /api/settings, which rewrites *)
(* my_profile.yaml and reloads config, and the page's loadData, which      *)
(* issues GET /api/tenders and GET /api/all-tenders together.  Flask       *)
(* serves each request on its own thread.                                  *)
(***************************************************************************)
MaxRuns == 1

MaxSaves == 1

\* the JSON bodies the settings form posts
SettingsBodies ==
    { [my_work_types |-> <<KwPainting>>, locations |-> <<KwVisakhapatnam>>,
       exclude_these_work_types |-> <<KwUnderwater>>, budget_minimum |-> 100000,
       budget_maximum |-> 5000000, minimum_match_score |-> 30],
      [my_work_types |-> <<KwSupply>>, locations |-> << >>,
       exclude_these_work_types |-> << >>, budget_minimum |-> 0,
       budget_maximum |-> 999999999, minimum_match_score |-> 0] }

\* api_save_settings: yaml.dump(new_data); importlib.reload(config), which
\* rebinds config.CONTRACTOR_PROFILE and config.DEFAULT_MIN_SCORE from the
\* file; the portals of the profile are literals of config.py
api_save_settings(body) ==
    /\ db_config.reloads < MaxSaves
    /\ db_config' =
          [CONTRACTOR_PROFILE |->
              [work_keywords |-> body.my_work_types,
               locations |-> body.locations,
               exclude_keywords |-> body.exclude_these_work_types,
               budget_range |-> [min |-> body.budget_minimum, max |-> body.budget_maximum]],
           DEFAULT_MIN_SCORE |-> body.minimum_match_score,
           reloads |-> db_config.reloads + 1]
    /\ UNCHANGED <<db_reader, db_portals, db_outcomes, db_status, db_progress, db_stage,
                   db_error, db_last_run_ts, db_all_tenders, db_matched_tenders, db_lock,
                   db_request, db_worker>>
    /\ UNCHANGED <<scoreVars, filterVars, adapterVars, pageVars, orchVars, callVars>>

\* api_matched: jsonify(... matched_tenders), read without the lock
api_matched ==
    /\ db_reader.pc = "loading"
    /\ db_reader.matched = None
    /\ db_reader' = [db_reader EXCEPT !.matched = Some(db_matched_tenders)]
    /\ UNCHANGED <<db_config, db_portals, db_outcomes, db_status, db_progress, db_stage,
                   db_error, db_last_run_ts, db_all_tenders, db_matched_tenders, db_lock,
                   db_request, db_worker>>
    /\ UNCHANGED <<scoreVars, filterVars, adapterVars, pageVars, orchVars, callVars>>

\* api_all: jsonify(... all_tenders), read without the lock
api_all ==
    /\ db_reader.pc = "loading"
    /\ db_reader.all = None
    /\ db_reader' = [db_reader EXCEPT !.all = Some(db_all_tenders)]
    /\ UNCHANGED <<db_config, db_portals, db_outcomes, db_status, db_progress, db_stage,
                   db_error, db_last_run_ts, db_all_tenders, db_matched_tenders, db_lock,
                   db_request, db_worker>>
    /\ UNCHANGED <<scoreVars, filterVars, adapterVars, pageVars, orchVars, callVars>>

\* a page is loading its data, and the profile may switch AP on as well
SpecBoard ==
    /\ DashStart(1..MaxRuns, {{"gem", "cppp"}, {"cppp"}, {"cppp", "ap_eprocurement"}}, TRUE)
    /\ [][\/ NextDash
          \/ \E body \in SettingsBodies : api_save_settings(body)
          \/ api_matched
          \/ api_all]_vars

(***************************************************************************)
(* Claims about the dashboard.                                             *)
(***************************************************************************)
\* the requests that have read the status inside the lock
Decided == {r \in DOMAIN db_request : db_request[r].pc \in {"starting", "returned"}}

\* the decided requests that were not answered 409
AcceptedRequests == {r \in Decided : db_request[r].code # 409}

\* the accepted requests whose pipeline execution is over
EndedRuns == {r \in DOMAIN db_worker : db_worker[r].pc \in {"finished", "failed"}}

\* the pipeline executions under way: accepted, and not over
ActiveRuns == AcceptedRequests \ EndedRuns

\* a step writes a global of the run state or a result list
SharedStateWritten ==
    <<db_status, db_progress, db_stage, db_error, db_last_run_ts, db_all_tenders,
      db_matched_tenders>>'
    # <<db_status, db_progress, db_stage, db_error, db_last_run_ts, db_all_tenders,
        db_matched_tenders>>

\* C18: at most one pipeline execution is under way; a request that finds
\* the status 'running' is answered 409 and starts no thread, any other is
\* accepted; a further request is accepted only after a run has ended, so of
\* requests made while no run ends exactly one is accepted.
C18_OneRunAtATimeOthersRejected ==
    /\ Cardinality(ActiveRuns) <= 1
    /\ \A r \in Decided :
          IF db_request[r].saw = "running"
          THEN db_request[r].code = 409 /\ db_worker[r].pc = "none"
          ELSE db_request[r].code # 409
    /\ \A r \in DOMAIN db_request :
          db_request[r].pc = "returned" => db_request[r].code \in {202, 409}
    /\ Cardinality(AcceptedRequests) <= Cardinality(EndedRuns) + 1
    /\ Decided # {} => AcceptedRequests # {}

\* C18 witness: three requests have returned while the one run is still
\* under way: one got 202, the other two 409.
C18_Witness_ThreeTriggersOneAccepted ==
    /\ \A r \in DOMAIN db_request : db_request[r].pc = "returned"
    /\ Cardinality(DOMAIN db_request) >= 3
    /\ EndedRuns = {}
    /\ Cardinality({r \in DOMAIN db_request : db_request[r].code = 202}) = 1
    /\ Cardinality({r \in DOMAIN db_request : db_request[r].code = 409})
          = Cardinality(DOMAIN db_request) - 1
    /\ db_status = "running"

\* C19: every step that writes the shared run state (status, progress,
\* stage, error, last run, result lists) is taken while the lock is held.
C19_SharedStateWrittenUnderLock == [][SharedStateWritten => db_lock # << >>]_vars

\* C20: while the status is 'running' the run state shows nothing of the
\* previous run: not progress 100, not its final stage text, no error.
C20_NothingOfPreviousRunWhileRunning ==
    db_status = "running" =>
        /\ db_progress # 100
        /\ db_stage \notin {"Complete", "Error: exc"}
        /\ db_error = ""

(***************************************************************************)
(* Claims about the dashboard and its other routes.                        *)
(***************************************************************************)
\* the pipeline executions that are past their export step
PastExport ==
    {r \in DOMAIN db_worker :
        db_worker[r].pc \in {"exported", "wrapped", "commit", "finished"}}

\* C21: a run whose enabled sources yielded zero tenders does not raise
\* and skips the export: no report is written for it.
C21_NoTendersNoReport ==
    \A r \in PastExport :
        db_worker[r].raw = << >> => db_worker[r].report = "none"

\* C22: the profile used for scoring and filtering in a run is the profile
\* that was in force when the run started, whatever is saved meanwhile.
C22_ProfileOfRunStartUsedForScoring ==
    \A r \in DOMAIN db_worker :
        db_worker[r].scored_with # None =>
            db_worker[r].scored_with = db_worker[r].started_with

RECURSIVE Amount(_, _)
Amount(m, k) ==
    IF m = 0 THEN [digits |-> 0, shift |-> 0]
    ELSE IF m % 10 = 0 THEN Amount(m \div 10, k + 1)
    ELSE [digits |-> m, shift |-> k]

\* float(num_str) for a string of digits and dots: None stands for the
\* ValueError raised on an empty string, a lone dot or a second dot
float(num_str) ==
    LET dots == {i \in DOMAIN num_str : num_str[i] = "."}
        digs == SelectSeq(num_str, LAMBDA c : c \in Digits)
        val(c) == CHOOSE d \in 0..9 : Decimal(d) = <<c>>
        Value[n \in 0..Len(digs)] == IF n = 0 THEN 0 ELSE 10 * Value[n - 1] + val(digs[n])
    IN IF Cardinality(dots) > 1 \/ digs = << >> THEN None
       ELSE IF dots = {} THEN Some(Amount(Value[Len(digs)], 0))
       ELSE Some(Amount(Value[Len(digs)], (CHOOSE i \in dots : TRUE) - Len(num_str)))

\* text.replace(old, "")
RECURSIVE Remove(_, _)
Remove(text, old) ==
    IF Len(text) < Len(old) THEN text
    ELSE IF SubSeq(text, 1, Len(old)) = old
         THEN Remove(SubSeq(text, Len(old) + 1, Len(text)), old)
         ELSE <<Head(text)>> \o Remove(Tail(text), old)

\* BaseScraper.parse_inr(text): the except ValueError branch returns None
parse_inr(text) ==
    IF text = << >> THEN None
    ELSE LET cleaned == Strip(Remove(Remove(Remove(Strip(text), <<",">>), <<"₹">>),
                                     <<"R", "s", ".">>))
             num == float(SelectSeq(cleaned, LAMBDA c : c \in Digits \cup {"."}))
             times(k) == IF num = None THEN None
                         ELSE Some(Amount(num[1].digits, num[1].shift + k))
         IN IF Contains(Lower(cleaned), <<"c", "r", "o", "r", "e">>)
               \/ Contains(Lower(cleaned), <<"c", "r">>)
            THEN times(7)
            ELSE IF Contains(Lower(cleaned), <<"l", "a", "k", "h">>)
                    \/ Contains(Lower(cleaned), <<"l", "a", "c">>)
            THEN times(5)
            ELSE num

\* the budget texts handed to parse_inr: a currency mark, a figure, and
\* what follows it in the cell, of fewer than ten digits in all
InrTexts ==
    LET marks == {<< >>, <<"₹">>, <<"₹", " ">>, <<"R", "s", ".", " ">>}
        figures == {<< >>, <<"3", ",", "5", "0", ",", "0", "0", "0">>, <<"3", ".", "5">>,
                    <<"1", ".", "2">>, <<"1", "2">>, <<"1", ".", "2", ".", "3">>,
                    <<"5", "0", ".">>, <<".">>}
        rests == {<< >>, <<" ", "L", "a", "k", "h">>, <<" ", "l", "a", "c">>,
                  <<" ", "C", "r", "o", "r", "e">>, <<" ", "c", "r">>,
                  <<"-", "M", "a", "r", "-", "2", "0", "2", "6">>,
                  <<" ", "s", "c", "r", "a", "p">>, <<" ", "k", "g">>,
                  <<"n", "o", "t", " ", "a", " ", "n", "u", "m", "b", "e", "r">>}
        few(text) == Len(SelectSeq(text, LAMBDA c : c \in Digits)) < 10
    IN {text \in {m \o f \o r : m \in marks, f \in figures, r \in rests} : few(text)}

InitInr ==
    /\ cl_args \in InrTexts
    /\ cl_result = << >>
    /\ cl_pc = "called"
    /\ ScoreOff
    /\ FilterOff
    /\ AdapterOff
    /\ PageOff
    /\ OrchOff
    /\ DashOff

\* val = self.parse_inr(txt)
CallParseInr ==
    /\ cl_pc = "called"
    /\ cl_result' = parse_inr(cl_args)
    /\ cl_pc' = "returned"
    /\ UNCHANGED cl_args
    /\ UNCHANGED <<scoreVars, filterVars, adapterVars, pageVars, orchVars, dashVars>>

SpecInr == InitInr /\ [][CallParseInr]_vars

(***************************************************************************)
(* Claims about the monetary parser.                                       *)
(***************************************************************************)
\* the text without currency marks and thousands separators
Cleaned(text) ==
    Strip(SelectSeq(Remove(text, <<"R", "s", ".">>), LAMBDA c : c \notin {",", "₹"}))

\* the leading numeric portion of a cleaned text, and what remains after it
LeadingNumber(text) ==
    LET n == CHOOSE k \in 0..Len(text) :
                 /\ \A i \in 1..k : text[i] \in Digits \cup {"."}
                 /\ (k < Len(text) => text[k + 1] \notin Digits \cup {"."})
    IN [number |-> SubSeq(text, 1, n), residue |-> Lower(Strip(SubSeq(text, n + 1, Len(text))))]

\* the specified parser: the number, times the multiplier its unit word
\* names; none when the number is not one or the residue is anything else
SpecifiedAmount(text) ==
    LET parts == LeadingNumber(Cleaned(text))
        n == float(parts.number)
        scaled(k) == IF n = None THEN None ELSE Some(Amount(n[1].digits, n[1].shift + k))
    IN CASE parts.residue = <<"c", "r", "o", "r", "e">> -> scaled(7)
         [] parts.residue \in {<<"l", "a", "k", "h">>, <<"l", "a", "c">>} -> scaled(5)
         [] parts.residue = << >> -> n
         [] OTHER -> None

\* C24: parse_inr returns what the specified monetary parser returns:
\* number x 10,000,000 when 'crore' follows the leading number, number x
\* 100,000 when 'lakh' or 'lac' does, the plain number for a clean string,
\* and none on any other residue, such as a date or a word holding 'cr'.
C24_ParseInrAgreesWithSpecifiedParser ==
    cl_pc = "returned" => cl_result = SpecifiedAmount(cl_args)

(***************************************************************************)
(* Claims about the cutoff test and the JS-shell test of a paged run.      *)
(***************************************************************************)
\* some publish date or some deadline of the batch is before the day
AnyDateBefore(batch, day) ==
    \E i \in 1..Len(batch) :
        \/ batch[i].published_date # << >> /\ batch[i].published_date[1] < day
        \/ batch[i].deadline # << >> /\ batch[i].deadline[1] < day

\* the run ended with the cutoff stop right after load i
CutoffStopAfter(i) == i = Len(pg_log) /\ PagesDone /\ pg_stop = "cutoff"

\* C25: in a loop that tests the cutoff, the cutoff stop fires after a page
\* exactly when the earliest of all publish dates and all deadlines of its
\* batch is before the cutoff, a deadline before the cutoff counting also
\* when the record's publish date is inside the window.
C25_CutoffOnEarliestOfPublishDatesAndDeadlines ==
    \A i \in 1..Len(pg_log) :
        (LoopTestsCutoff(pg_log[i]) /\ (i < Len(pg_log) \/ PagesDone)) =>
            (CutoffStopAfter(i) <=> AnyDateBefore(pg_log[i].batch, pg_cutoff_date))

\* the plain fetch of load i was taken for a JS shell: fetched, not parsed
TakenForShell(load) == load.via = "plain" /\ ~load.failed /\ ~load.parsed

\* C26: a fetched plain response is taken for a JS shell exactly when its
\* visible text is shorter than 500 characters and its markup carries a
\* loading/noscript marker; a short page without the marker is parsed.
C26_ShellIffShortTextAndMarker ==
    \A i \in 1..Len(pg_log) :
        (pg_log[i].via = "plain" /\ ~pg_log[i].failed) =>
            LET page == PageAt(pg_portal, pg_site, pg_log[i].page)
            IN TakenForShell(pg_log[i]) <=> (page.text_len < 500 /\ page.marker)

(***************************************************************************)
(* scrapers/gem_scraper.py: one scrape() of the GeM adapter.  A search is  *)
(* what the portal does for one term: the result pages it serves, each a   *)
(* parsed batch, the last one without a Next button, and after how many    *)
(* parsed pages a browser call of the search raises, if one does.          *)
(***************************************************************************)
PAGES_PER_SEARCH == 3

MaxTerms == 2

\* _search_and_collect from page_num on; acc holds tenders and seen_ids, and
\* parsed, every record _parse_page returned so far
RECURSIVE _search_and_collect(_, _, _)
_search_and_collect(search, page_num, acc) ==
    IF page_num > PAGES_PER_SEARCH THEN acc
    \* page.goto raises
    ELSE IF page_num = 1 /\ search.raises_after = Some(0) THEN acc
    ELSE LET batch == IF page_num <= Len(search.pages) THEN search.pages[page_num]
                      ELSE << >>
             \* if t.tender_id and t.tender_id not in seen_ids: add, append
             new[n \in 0..Len(batch)] ==
                 IF n = 0 THEN [tenders |-> acc.tenders, seen_ids |-> acc.seen_ids]
                 ELSE IF batch[n].tender_id # Empty
                         /\ batch[n].tender_id \notin new[n - 1].seen_ids
                 THEN [tenders |-> Append(new[n - 1].tenders, batch[n]),
                       seen_ids |-> new[n - 1].seen_ids \cup {batch[n].tender_id}]
                 ELSE new[n - 1]
             after == [tenders |-> new[Len(batch)].tenders,
                       seen_ids |-> new[Len(batch)].seen_ids,
                       parsed |-> acc.parsed \o batch]
         IN IF batch = << >> THEN after
            \* no a.page-link.next on the last page served
            ELSE IF page_num >= Len(search.pages) THEN after
            \* next_btn.click() raises
            ELSE IF search.raises_after = Some(page_num) THEN after
            ELSE _search_and_collect(search, page_num + 1, after)

\* _scrape_with_playwright: for term in GEM_SEARCH_TERMS: try: _search_and_collect
\* on the shared tenders and seen_ids; except Exception: log and go on
RECURSIVE _scrape_with_playwright(_, _)
_scrape_with_playwright(searches, acc) ==
    IF searches = << >> THEN acc
    ELSE _scrape_with_playwright(Tail(searches), _search_and_collect(Head(searches), 1, acc))

\* the searches: up to two served pages out of three batches, or four full
\* pages, with or without a click that raises, and one whose goto raises
GemSearches ==
    LET a == OrchTender("GeM", IdA, TitlePaintingVizag)
        a_again == OrchTender("GeM", IdA, TitleUnderwater)
        b == OrchTender("GeM", IdB, TitleCanteen)
        no_id == OrchTender("GeM", Empty, TitleRoadAP)
        batches == {<<a>>, <<a, no_id>>, <<b, a_again>>}
    IN {[pages |-> pages, raises_after |-> raises_after] :
           pages \in ListsUpTo(batches, 2) \cup {<<<<a>>, <<b>>, <<a_again>>, <<no_id>>>>},
           raises_after \in {None, Some(1)}}
       \cup {[pages |-> <<<<b>>>>, raises_after |-> Some(0)]}

InitGem ==
    /\ cl_args \in [browser : {"ok", "launch_error"},
                    searches : ListsUpTo(GemSearches, MaxTerms)]
    /\ Len(cl_args.searches) = MaxTerms
    /\ cl_result = << >>
    /\ cl_pc = "called"
    /\ ScoreOff
    /\ FilterOff
    /\ AdapterOff
    /\ PageOff
    /\ OrchOff
    /\ DashOff

\* GemScraper.scrape: return self._scrape_with_playwright(), or [] when
\* chromium cannot be launched
GemScrape ==
    /\ cl_pc = "called"
    /\ LET start == [tenders |-> << >>, seen_ids |-> {}, parsed |-> << >>]
           acc == IF cl_args.browser = "ok"
                  THEN _scrape_with_playwright(cl_args.searches, start)
                  ELSE start
       IN cl_result' = [tenders |-> acc.tenders, parsed |-> acc.parsed]
    /\ cl_pc' = "returned"
    /\ UNCHANGED cl_args
    /\ UNCHANGED <<scoreVars, filterVars, adapterVars, pageVars, orchVars, dashVars>>

SpecGem == InitGem /\ [][GemScrape]_vars

(***************************************************************************)
(* Claims about the GeM merge.                                             *)
(***************************************************************************)
\* C27: the list GeM returns holds, in the order parsed, the first record of
\* each dedup key (tender_id, else title) among the records parsed from all
\* search terms' pages: one record per key, and none dropped but duplicates.
C27_GemMergeKeepsFirstRecordOfEveryKey ==
    cl_pc = "returned" =>
        LET first == FirstSeen(cl_result.parsed)
        IN /\ Len(cl_result.tenders) = Cardinality(first)
           /\ \A i \in first :
                 cl_result.tenders[Cardinality({j \in first : j <= i})] = cl_result.parsed[i]

(***************************************************************************)
(* Claims about how a dashboard run ends.                                  *)
(***************************************************************************)
\* the requests that were accepted: they read a status other than 'running'
Accepted(r) == db_request[r].pc \in {"starting", "returned"} /\ db_request[r].code # 409

\* the run of request r is over
RunOver(r) == db_worker[r].pc \in {"finished", "failed"}

\* C28: every accepted run comes to its end, the status 'running' always
\* gives way to 'done' or 'error', also when scoring raises or the export
\* fails, and a trigger that then reads 'done' or 'error' is accepted.
C28_AcceptedRunLeavesRunning ==
    /\ \A r \in 1..MaxFairRuns : Accepted(r) ~> RunOver(r)
    /\ (db_status = "running") ~> (db_status \in {"done", "error"})
    /\ [](\A r \in 1..MaxFairRuns :
             (Accepted(r) \/ db_request[r].code = 409) =>
                 (db_request[r].saw \in {"idle", "done", "error"} <=> Accepted(r)))

\* C28 witness: one run ended in 'error', another went through a failed
\* export to 'done', and a trigger made after a run had ended was accepted.
C28_Witness_TriggerAcceptedAfterErrorAndFailedExport ==
    /\ \E r \in DOMAIN db_worker : db_worker[r].pc = "failed"
    /\ \E r \in DOMAIN db_worker :
          db_worker[r].pc = "finished" /\ db_worker[r].report = "failed"
    /\ \E r \in DOMAIN db_request :
          Accepted(r) /\ db_request[r].saw = "error"
    /\ db_status = "done"

\* the published results: matched list, all list, last-run timestamp
Published == <<db_matched_tenders, db_all_tenders, db_last_run_ts>>

\* the run of request r ends at this step, in the given way
RunEndsAs(r, how) == db_worker[r].pc # how /\ db_worker'[r].pc = how

\* C29: the step that ends a run in 'error' leaves the published matched
\* list, all list and last-run timestamp as they were; they change only at
\* the step that ends a run successfully, all three together with that
\* run's results, and that step sets status 'done' and progress 100.
C29_ResultsPublishedOnlyOnSuccess ==
    [][/\ \A r \in DOMAIN db_worker :
             RunEndsAs(r, "failed") => (db_status' = "error" /\ Published' = Published)
       /\ Published' # Published =>
             \E r \in DOMAIN db_worker :
                 /\ RunEndsAs(r, "finished")
                 /\ db_matched_tenders' = db_worker[r].matched
                 /\ db_all_tenders' = db_worker[r].raw
                 /\ db_last_run_ts' # db_last_run_ts
                 /\ db_status' = "done"
                 /\ db_progress' = 100]_vars

\* C29 witness: a run has published two records, a later run has ended in
\* 'error', and the lists and the timestamp of the earlier run still stand.
C29_Witness_ErrorAfterPublishedRun ==
    /\ db_status = "error"
    /\ db_last_run_ts = 1
    /\ Len(db_all_tenders) = 2
    /\ db_matched_tenders # << >>
    /\ \E r \in DOMAIN db_worker : db_worker[r].pc = "finished"
    /\ \E r \in DOMAIN db_worker : db_worker[r].pc = "failed"

\* C30: the matched list and the all list a page load is answered with are
\* a pair of one run: every tender of the matched list is in the all list.
C30_ObservedListsOfOneRun ==
    (db_reader.matched # << >> /\ db_reader.all # << >>) =>
        \A i \in DOMAIN db_reader.matched[1] :
            \E j \in DOMAIN db_reader.all[1] :
                db_reader.all[1][j] = db_reader.matched[1][i]

====
